---- MODULE Spec2Model ----
(***************************************************************************)
(* News-Aggregator: the retry queue (shared/retry/retry_queue.py), its     *)
(* storage (shared/retry/retry_storage.py), the multi-provider summarizer  *)
(* (shared/ai/multi_summarizer.py) and the feed collector                  *)
(* (shared/collectors/rss_collector.py) as state machines.                 *)
(*                                                                         *)
(* Time is counted in seconds (datetime.now()).  Each subsystem has its    *)
(* own specification over the same variables; an action leaves the         *)
(* variables of the other subsystems unchanged.                            *)
(***************************************************************************)
EXTENDS Integers, Sequences, FiniteSets, TLC

(* ------------------------------------------------------------------ *)
(* Bounds of the model                                                  *)
(* ------------------------------------------------------------------ *)
NumIds == 2
MaxQueueTicks == 1
MaxMultiTicks == 1
MaxErrors == 5
NumSources == 2
NumUrls == 2
MaxArticles == 3

(* ------------------------------------------------------------------ *)
(* Program constants                                                    *)
(* ------------------------------------------------------------------ *)
DefaultMaxRetries == 5
DefaultCleanupDays == 7
DaySeconds == 86400
QueueTickDays == 8
ErrorThreshold == 3
RateLimitCooldown == 300
MultiTick == 300
DefaultCollectorRetries == 3

Ids == 1..NumIds
Sources == 1..NumSources
Urls == 1..NumUrls
None == "None"
\* an Optional value: None, or a value
NoValue == [kind |-> "None"]
SomeValue(x) == [kind |-> "value", value |-> x]
\* rate_limit_reset = None (the cooldown timestamp is a number otherwise)
NoReset == -1

VARIABLES
    now,            \* datetime.now(), in seconds
    items,          \* RetryQueue.items: sequence of RetryQueueItem
    last_updated,   \* RetryQueue.last_updated
    provider_status,        \* MultiAISummarizer.provider_status: provider -> ProviderStatus
    errors_since_success,   \* history: mark_error calls per provider since its last mark_success
    cache,          \* MultiAISummarizer.cache: article id -> stored NewsItem or None
    call,           \* the last MultiAISummarizer operation: its arguments, provider calls and result
    totals,         \* RetryQueue.total_processed, total_succeeded, total_failed
    file,           \* the content of RetryStorage.file_path
    temp,           \* the content of the temporary file of the save_queue in progress
    save,           \* the save_queue in progress: its position and the queue it saves
    committed,      \* history: the queue of the last save_queue that replaced the file
    loaded,         \* what the last load_queue read and returned
    qcall,          \* the last RetryQueue call: its arguments, the queue before and after, its return value
    roundtrip,      \* the last RetryQueue.from_dict(queue.to_dict()): the queue, the dict and the result
    flock,          \* the advisory locks held on the queue file: a set of <<process, mode>>
    reader,         \* the load_queue in progress in a second process: its position and what it opened
    collector,      \* the RSSCollector: max_retries
    tasks,          \* the _collect_from_source task of each source: attempt, position, waits, result
    collect,        \* collect_all: its position and what it returned
    dedup,          \* the last deduplicate call: its argument and its return value
    classified,     \* the last ErrorClassifier.classify_error call: its arguments and its result
    pipeline,       \* ProcessingPipeline.run: its position, what each step returned, the exit code
    built,          \* the last OpenAISummarizer.summarize_article call: the backend's answer and the result
    objects,        \* the RawNewsItem objects constructed so far
    attempts,       \* the _process_article_with_retry call of a provider: its attempts, waits and result
    backups,        \* the backup files _create_backup has written: a set of <<timestamp of the name, content>>
    procs           \* two processes that load, change and save the queue file: position and queue of each

qvars == <<items, last_updated>>
mvars == <<provider_status, errors_since_success, cache, call>>
svars == <<totals, file, temp, save, committed, loaded>>
lvars == <<flock, reader>>
cvars == <<collector, tasks, collect, dedup>>
pvars == <<classified, pipeline, built, objects>>
rvars == <<attempts, backups, procs>>
xvars == <<roundtrip, lvars, cvars, pvars, rvars>>
others_q == <<mvars, svars, pvars, xvars>>
others_m == <<qvars, qcall, svars, xvars>>
vars == <<now, qvars, qcall, mvars, svars, pvars, xvars>>

(* ------------------------------------------------------------------ *)
(* RetryQueueItem                                                       *)
(* ------------------------------------------------------------------ *)

\* The dataclass constructor; created_at defaults to datetime.now().
RetryQueueItem(id, reason, count, next_time, max, created) ==
    [id |-> id, article_data |-> [id |-> id],
     failure_reason |-> reason, failure_timestamp |-> created,
     retry_count |-> count, next_retry_time |-> next_time,
     provider_failures |-> {},
     max_retries |-> max, created_at |-> created]

is_expired(item) == item.retry_count >= item.max_retries

can_retry_now_ignores_expiry(item, t) == t >= item.next_retry_time

can_retry_now(item, t) == t >= item.next_retry_time /\ ~is_expired(item)

\* from_raw_news_item: builds the entry of a failed article; the attempt
\* count is the literal 0 and max_retries the literal 5.
from_raw_news_item(raw_id, reason, next_time, t) ==
    RetryQueueItem(raw_id, reason, 0, next_time, 5, t)

(* ------------------------------------------------------------------ *)
(* RetryQueue                                                           *)
(* ------------------------------------------------------------------ *)

IndexesOf(q, id) == {i \in 1..Len(q) : q[i].id = id}

\* first index whose entry has this id (the loop breaks at the first match)
FirstIndexOf(q, id) == CHOOSE i \in IndexesOf(q, id) : \A j \in IndexesOf(q, id) : i <= j

get_active_items(q) == SelectSeq(q, LAMBDA it : ~is_expired(it))

get_retry_candidates(q, t) ==
    SelectSeq(get_active_items(q), LAMBDA it : can_retry_now(it, t))

get_expired_items(q) == SelectSeq(q, is_expired)

add_item_append(q, item) == Append(q, item)

\* add_item: replace the first entry with the same id, else append
add_item(q, item) ==
    IF IndexesOf(q, item.id) # {}
    THEN [q EXCEPT ![FirstIndexOf(q, item.id)] = item]
    ELSE Append(q, item)

remove_item_reports_found(q, id) ==
    IF IndexesOf(q, id) # {}
    THEN <<SubSeq(q, 1, FirstIndexOf(q, id) - 1) \o SubSeq(q, FirstIndexOf(q, id) + 1, Len(q)), TRUE>>
    ELSE <<q, TRUE>>

RemoveAt(q, i) == SubSeq(q, 1, i - 1) \o SubSeq(q, i + 1, Len(q))

\* remove_item: delete the first entry with this id; <<queue, found>>
remove_item(q, id) ==
    IF IndexesOf(q, id) # {}
    THEN <<RemoveAt(q, FirstIndexOf(q, id)), TRUE>>
    ELSE <<q, FALSE>>

cleanup_old_entries_by_age(q, days, t) ==
    SelectSeq(q, LAMBDA it : ~(it.created_at < t - days * DaySeconds))

\* cleanup_old_entries: drop the entries that are expired and created
\* before now - days
cleanup_old_entries(q, days, t) ==
    SelectSeq(q, LAMBDA it : ~(is_expired(it) /\ it.created_at < t - days * DaySeconds))

Entry(q, id) == q[FirstIndexOf(q, id)]

(* ------------------------------------------------------------------ *)
(* ProviderStatus (the provider health record)                          *)
(* ------------------------------------------------------------------ *)

\* the enum AIProvider, in the order _initialize_providers fills the
\* providers / provider_status dicts
AIProviderOrder == <<"claude", "openai", "gemini", "local">>

\* the providers _initialize_providers can set up: the repository holds
\* claude_summarizer and openai_summarizer; the imports of gemini_summarizer
\* and local_summarizer fail and are skipped
Providers == {"claude", "openai"}

ProviderKeys == SelectSeq(AIProviderOrder, LAMBDA p : p \in Providers)

\* ProviderStatus.__init__ (last_used, which nothing reads but the status
\* report, is left out)
NewProviderStatus ==
    [available |-> TRUE, last_error |-> None, error_count |-> 0,
     rate_limit_reset |-> NoReset]

mark_error_never_disables(st, error) ==
    [st EXCEPT !.error_count = @ + 1, !.last_error = error]

mark_error(st, error) ==
    [st EXCEPT !.error_count = @ + 1,
               !.last_error = error,
               !.available = IF st.error_count + 1 >= ErrorThreshold THEN FALSE ELSE @]

mark_success(st) ==
    [st EXCEPT !.error_count = 0, !.last_error = None, !.available = TRUE]

\* is_rate_limited: rate_limit_reset is None, or the float
\* datetime.now().timestamp() + 300 that summarize_article stores; the
\* comparison datetime.now() < float raises TypeError
is_rate_limited(st, t) ==
    IF st.rate_limit_reset = NoReset THEN "False" ELSE "TypeError"

(* ------------------------------------------------------------------ *)
(* MultiAISummarizer                                                    *)
(* ------------------------------------------------------------------ *)

\* the filter `status.available and not status.is_rate_limited()` over
\* provider_status: and short-circuits, so is_rate_limited runs only for
\* available providers
FilterRaises(status, t) ==
    \E p \in Providers :
        status[p].available /\ is_rate_limited(status[p], t) = "TypeError"

AvailableProviders(status, t) ==
    SelectSeq(ProviderKeys,
        LAMBDA p : status[p].available /\ is_rate_limited(status[p], t) = "False")

task_preferences(task_type) ==
    CASE task_type = "summarize" -> <<"openai", "claude", "gemini", "local">>
      [] task_type = "translate" -> <<"openai", "gemini", "claude", "local">>
      [] task_type = "analyze"   -> <<"claude", "gemini", "openai", "local">>
      [] task_type = "batch"     -> <<"gemini", "openai", "claude", "local">>

InSeq(x, sq) == \E i \in 1..Len(sq) : sq[i] = x

select_provider_ignoring_health(status, task_type, t) ==
    Head(SelectSeq(task_preferences(task_type), LAMBDA p : p \in Providers))

\* _select_provider: "TypeError", None, or the first preferred provider
\* among the available ones (the preference lists name every AIProvider,
\* so the random fallback is never reached)
select_provider(status, task_type, t) ==
    IF FilterRaises(status, t) THEN "TypeError"
    ELSE IF AvailableProviders(status, t) = <<>> THEN None
    ELSE LET prefs == SelectSeq(task_preferences(task_type),
                        LAMBDA p : InSeq(p, AvailableProviders(status, t)))
         IN  Head(prefs)

\* what a provider's summarize_article does with an article
Outcomes == {"ok", "none", "raise", "raise_rate_limit"}

\* the NewsItem a provider returns for an article
NewsItem(article, provider) == [id |-> article, by |-> provider]

CallRecord(p, outcome, marked) == [provider |-> p, outcome |-> outcome, marked |-> marked]

\* the except branch of summarize_article: mark_error, and the cooldown
\* timestamp on a rate-limit message
on_provider_error(st, outcome, t) ==
    IF outcome = "raise_rate_limit"
    THEN [mark_error(st, "rate_limit") EXCEPT !.rate_limit_reset = t + RateLimitCooldown]
    ELSE mark_error(st, "error")

\* what an operation of MultiAISummarizer returns or raises
Returned(kind, value) == [kind |-> kind, value |-> value]
ReturnedNone == [kind |-> "None"]
RaisedTypeError == [kind |-> "TypeError"]

\* ArticleCache: get(article) is the stored NewsItem of the article's id,
\* put(article, item) stores it in place of an earlier one
cache_hit(stored, article) == \E it \in stored : it.id = article
cache_get(stored, article) == CHOOSE it \in stored : it.id = article
cache_put(stored, article, item) == {it \in stored : it.id # article} \cup {item}

\* the fallback loop of summarize_article over [provider] + the others
RECURSIVE try_providers(_, _, _, _, _, _)
try_providers(order, status, article, outcome, t, calls) ==
    IF order = <<>>
    THEN [status |-> status, result |-> ReturnedNone, calls |-> calls, put |-> FALSE]
    ELSE LET p == Head(order) IN
         IF ~status[p].available
         THEN try_providers(Tail(order), status, article, outcome, t, calls)
         ELSE IF outcome[p] = "ok"
         THEN [status |-> [status EXCEPT ![p] = mark_success(@)],
               result |-> Returned("item", NewsItem(article, p)),
               calls  |-> Append(calls, CallRecord(p, "ok", "success")),
               put    |-> TRUE]
         ELSE IF outcome[p] = "none"
         THEN try_providers(Tail(order), status, article, outcome, t,
                            Append(calls, CallRecord(p, "none", "nothing")))
         ELSE try_providers(Tail(order),
                            [status EXCEPT ![p] = on_provider_error(@, outcome[p], t)],
                            article, outcome, t,
                            Append(calls, CallRecord(p, outcome[p], "error")))

attempt_order_with_repeats(provider) ==
    <<provider>> \o ProviderKeys

attempt_order(provider) ==
    <<provider>> \o SelectSeq(ProviderKeys, LAMBDA p : p # provider)

\* summarize_article(article) with the providers behaving as `outcome`
summarize_article(status, stored, article, outcome, t) ==
    IF cache_hit(stored, article)
    THEN [status |-> status, result |-> Returned("item", cache_get(stored, article)),
          calls |-> <<>>, put |-> FALSE]
    ELSE LET provider == select_provider(status, "summarize", t) IN
         IF provider = "TypeError"
         THEN [status |-> status, result |-> RaisedTypeError, calls |-> <<>>, put |-> FALSE]
         ELSE IF provider = None
         THEN [status |-> status, result |-> ReturnedNone, calls |-> <<>>, put |-> FALSE]
         ELSE try_providers(attempt_order(provider), status, article, outcome, t, <<>>)

\* _process_batch_with_provider: the provider's batch_process raises, or
\* returns the results of the articles in okset, in the order of the batch
process_batch_with_provider(st, p, batch, okset, raises) ==
    IF p \in raises
    THEN [status |-> mark_error(st, "error"), results |-> <<>>,
          call |-> CallRecord(p, "raise", "error")]
    ELSE LET done == SelectSeq(batch, LAMBDA a : a \in okset) IN
         [status |-> mark_success(st),
          results |-> [i \in 1..Len(done) |-> NewsItem(done[i], p)],
          call |-> CallRecord(p, IF done = <<>> THEN "none" ELSE "ok", "success")]

\* the tasks of batch_process, one per provider with a non-empty batch, in
\* the order of provider_batches; gather returns their results in that order
RECURSIVE gather_batches(_, _, _, _, _, _, _, _)
gather_batches(provs, status, new, assign, okset, raises, results, calls) ==
    IF provs = <<>>
    THEN [status |-> status, results |-> results, calls |-> calls]
    ELSE LET p == Head(provs)
             batch == SelectSeq(new, LAMBDA a : assign[a] = p)
             r == process_batch_with_provider(status[p], p, batch, okset, raises)
         IN  IF batch = <<>>
             THEN gather_batches(Tail(provs), status, new, assign, okset, raises,
                                 results, calls)
             ELSE gather_batches(Tail(provs), [status EXCEPT ![p] = r.status], new,
                                 assign, okset, raises,
                                 results \o r.results, Append(calls, r.call))

batch_process_fresh_first(status, stored, articles, assign, okset, raises, t) ==
    LET hits == SelectSeq(articles, LAMBDA a : cache_hit(stored, a))
        cached_articles == [i \in 1..Len(hits) |-> cache_get(stored, hits[i])]
        new_articles == SelectSeq(articles, LAMBDA a : ~cache_hit(stored, a))
    IN  IF new_articles = <<>>
        THEN [status |-> status, result |-> Returned("list", cached_articles), calls |-> <<>>]
        ELSE IF FilterRaises(status, t)
        THEN [status |-> status, result |-> RaisedTypeError, calls |-> <<>>]
        ELSE LET g == gather_batches(AvailableProviders(status, t), status, new_articles,
                                     assign, okset, raises, <<>>, <<>>)
             IN  [status |-> g.status,
                  result |-> Returned("list", g.results \o cached_articles),
                  calls |-> g.calls]

\* batch_process(articles): assign is the weighted random draw of
\* _distribute_articles for the articles that are not cached
batch_process(status, stored, articles, assign, okset, raises, t) ==
    LET hits == SelectSeq(articles, LAMBDA a : cache_hit(stored, a))
        cached_articles == [i \in 1..Len(hits) |-> cache_get(stored, hits[i])]
        new_articles == SelectSeq(articles, LAMBDA a : ~cache_hit(stored, a))
    IN  IF new_articles = <<>>
        THEN [status |-> status, result |-> Returned("list", cached_articles), calls |-> <<>>]
        ELSE IF FilterRaises(status, t)
        THEN [status |-> status, result |-> RaisedTypeError, calls |-> <<>>]
        ELSE LET g == gather_batches(AvailableProviders(status, t), status, new_articles,
                                     assign, okset, raises, <<>>, <<>>)
             IN  [status |-> g.status,
                  result |-> Returned("list", cached_articles \o g.results),
                  calls |-> g.calls]

\* _create_empty_summary / _create_basic_summary / a provider's report
\* (category_total is the sum of the counts of category_breakdown)
DailySummary(kind, n) == [kind |-> kind, total_articles |-> n, category_total |-> n]

\* analyze_daily_trends(articles) for n processed items; the provider's
\* analyze_daily_trends returns a report or raises
analyze_daily_trends(status, n, outcome, t) ==
    LET provider == select_provider(status, "analyze", t) IN
    IF provider = "TypeError"
    THEN [status |-> status, result |-> RaisedTypeError, calls |-> <<>>]
    ELSE IF provider = None
    THEN [status |-> status, result |-> Returned("summary", DailySummary("empty", 0)),
          calls |-> <<>>]
    ELSE IF outcome = "ok"
    THEN [status |-> [status EXCEPT ![provider] = mark_success(@)],
          result |-> Returned("summary", DailySummary("provider", n)),
          calls |-> <<CallRecord(provider, "ok", "success")>>]
    ELSE [status |-> [status EXCEPT ![provider] = mark_error(@, "error")],
          result |-> Returned("summary", DailySummary("basic", n)),
          calls |-> <<CallRecord(provider, "raise", "error")>>]

\* the history of mark_error / mark_success calls, from the calls made
RECURSIVE CountAfter(_, _, _)
CountAfter(n, p, calls) ==
    IF calls = <<>> THEN n
    ELSE LET c == Head(calls) IN
         CountAfter(IF c.provider # p THEN n
                    ELSE IF c.marked = "success" THEN 0
                    ELSE IF c.marked = "error" THEN n + 1
                    ELSE n,
                    p, Tail(calls))

(* ------------------------------------------------------------------ *)
(* JSON values and the dict form of the queue                           *)
(* ------------------------------------------------------------------ *)

\* a RetryQueue object: its entries, last_updated and the three counters
Queue(its, updated, tot) == [items |-> its, last_updated |-> updated, totals |-> tot]

ZeroTotals == [total_processed |-> 0, total_succeeded |-> 0, total_failed |-> 0]

\* RetryQueue(): the default-constructed queue
NewRetryQueue(t) == Queue(<<>>, t, ZeroTotals)

\* JSON values: objects (a function from keys), lists, numbers, strings;
\* a string in ISO-8601 form is kept apart from other strings
JObj(fields) == [t |-> "obj", f |-> fields]
JList(elems) == [t |-> "list", v |-> elems]
JNum(n) == [t |-> "num", v |-> n]
JStr(text) == [t |-> "str", v |-> text]

\* datetime.isoformat() and datetime.fromisoformat(): the text of a time,
\* and the parse of a value (ValueError for other text, TypeError for a
\* value that is no string)
isoformat(time) == [t |-> "iso", v |-> time]

Ok(value) == [ok |-> TRUE, v |-> value]
Exc(name) == [ok |-> FALSE, exc |-> name]

fromisoformat(j) ==
    IF j.t = "iso" THEN Ok(j.v)
    ELSE IF j.t = "str" THEN Exc("ValueError")
    ELSE Exc("TypeError")

\* dict.get(key, default): AttributeError on a value that is no dict
dict_get(j, key, default) ==
    IF j.t # "obj" THEN Exc("AttributeError")
    ELSE IF key \in DOMAIN j.f THEN Ok(j.f[key])
    ELSE Ok(default)

\* a dict a to_dict hands on as it is (article_data, provider_failures)
JDict(d) == [t |-> "dict", v |-> d]

\* RetryQueueItem.to_dict
item_to_dict(item) ==
    JObj([id |-> JNum(item.id),
          article_data |-> JDict(item.article_data),
          provider_failures |-> JDict(item.provider_failures),
          failure_reason |-> JStr(item.failure_reason),
          failure_timestamp |-> isoformat(item.failure_timestamp),
          retry_count |-> JNum(item.retry_count),
          next_retry_time |-> isoformat(item.next_retry_time),
          max_retries |-> JNum(item.max_retries),
          created_at |-> isoformat(item.created_at)])

ItemKeys == {"id", "article_data", "failure_reason", "failure_timestamp",
             "retry_count", "next_retry_time", "provider_failures",
             "max_retries", "created_at"}

item_from_dict_resets_failures(j) ==
    IF j.t # "obj" THEN Exc("TypeError")
    ELSE IF ~(ItemKeys \subseteq DOMAIN j.f) THEN Exc("KeyError")
    ELSE IF ~fromisoformat(j.f.failure_timestamp).ok THEN fromisoformat(j.f.failure_timestamp)
    ELSE IF ~fromisoformat(j.f.next_retry_time).ok THEN fromisoformat(j.f.next_retry_time)
    ELSE IF ~fromisoformat(j.f.created_at).ok THEN fromisoformat(j.f.created_at)
    ELSE Ok([id |-> j.f.id.v,
             article_data |-> j.f.article_data.v,
             failure_reason |-> j.f.failure_reason.v,
             failure_timestamp |-> fromisoformat(j.f.failure_timestamp).v,
             retry_count |-> j.f.retry_count.v,
             next_retry_time |-> fromisoformat(j.f.next_retry_time).v,
             provider_failures |-> {},
             max_retries |-> j.f.max_retries.v,
             created_at |-> fromisoformat(j.f.created_at).v])

\* RetryQueueItem.from_dict: data[key] for every field (TypeError on a value
\* that is no dict, KeyError on a missing key), fromisoformat on the three
\* times; the other fields are taken as they are
item_from_dict(j) ==
    IF j.t # "obj" THEN Exc("TypeError")
    ELSE IF ~(ItemKeys \subseteq DOMAIN j.f) THEN Exc("KeyError")
    ELSE IF ~fromisoformat(j.f.failure_timestamp).ok THEN fromisoformat(j.f.failure_timestamp)
    ELSE IF ~fromisoformat(j.f.next_retry_time).ok THEN fromisoformat(j.f.next_retry_time)
    ELSE IF ~fromisoformat(j.f.created_at).ok THEN fromisoformat(j.f.created_at)
    ELSE Ok([id |-> j.f.id.v,
             article_data |-> j.f.article_data.v,
             provider_failures |-> j.f.provider_failures.v,
             failure_reason |-> j.f.failure_reason.v,
             failure_timestamp |-> fromisoformat(j.f.failure_timestamp).v,
             retry_count |-> j.f.retry_count.v,
             next_retry_time |-> fromisoformat(j.f.next_retry_time).v,
             max_retries |-> j.f.max_retries.v,
             created_at |-> fromisoformat(j.f.created_at).v])

\* RetryQueue.to_dict
queue_to_dict(q) ==
    JObj([items |-> JList([i \in 1..Len(q.items) |-> item_to_dict(q.items[i])]),
          last_updated |-> isoformat(q.last_updated),
          total_processed |-> JNum(q.totals.total_processed),
          total_succeeded |-> JNum(q.totals.total_succeeded),
          total_failed |-> JNum(q.totals.total_failed)])

\* RetryQueue.from_dict; t is datetime.now(), the default of last_updated
queue_from_dict(j, t) ==
    LET its == dict_get(j, "items", JList(<<>>))
        upd == dict_get(j, "last_updated", isoformat(t))
    IN  IF ~its.ok THEN its
        ELSE IF its.v.t # "list" THEN Exc("TypeError")
        ELSE IF \E i \in 1..Len(its.v.v) : ~item_from_dict(its.v.v[i]).ok
        THEN item_from_dict(its.v.v[
                 CHOOSE i \in 1..Len(its.v.v) :
                     /\ ~item_from_dict(its.v.v[i]).ok
                     /\ \A k \in 1..(i - 1) : item_from_dict(its.v.v[k]).ok])
        ELSE IF ~fromisoformat(upd.v).ok THEN fromisoformat(upd.v)
        ELSE Ok(Queue([i \in 1..Len(its.v.v) |-> item_from_dict(its.v.v[i]).v],
                      fromisoformat(upd.v).v,
                      [total_processed |-> dict_get(j, "total_processed", JNum(0)).v.v,
                       total_succeeded |-> dict_get(j, "total_succeeded", JNum(0)).v.v,
                       total_failed |-> dict_get(j, "total_failed", JNum(0)).v.v]))

(* ------------------------------------------------------------------ *)
(* RetryStorage: the queue file                                         *)
(* ------------------------------------------------------------------ *)

\* contents of a path: no file, a complete JSON text, or text that is no
\* JSON (an empty or cut-off file)
Absent == [t |-> "absent"]
JsonText(j) == [t |-> "json", json |-> j]
Truncated == [t |-> "truncated"]

\* save_data of save_queue: version, saved_at and the queue payload
save_data(q, t) ==
    JObj([version |-> JStr("1.0"), saved_at |-> isoformat(t), queue |-> queue_to_dict(q)])

\* json.load
json_load(content) ==
    IF content.t = "json" THEN Ok(content.json) ELSE Exc("JSONDecodeError")

save_write_path_in_place == "file"

\* the path json.dump of save_queue writes to: the NamedTemporaryFile made
\* in the directory of the queue file
save_write_path == "temp"

\* load_queue on a queue file of this content: the returned value (a queue,
\* or None) and whether _create_backup ran
Loaded(q, backed_up) == [result |-> "queue", queue |-> q, backup |-> backed_up]
LoadedNone == [result |-> "None", backup |-> FALSE]

load_queue(content, t) ==
    IF content = Absent THEN Loaded(NewRetryQueue(t), FALSE)
    ELSE IF ~json_load(content).ok THEN Loaded(NewRetryQueue(t), TRUE)
    ELSE LET data == json_load(content).v
             queue_data == dict_get(data, "queue", JObj(<<>>))
         IN  IF ~dict_get(data, "version", JStr("1.0")).ok THEN LoadedNone
             ELSE IF ~queue_from_dict(queue_data.v, t).ok THEN LoadedNone
             ELSE Loaded(queue_from_dict(queue_data.v, t).v, FALSE)

\* _create_backup: when the queue file exists, shutil.copy2 copies it to
\* the path of _get_backup_path, whose name carries the time in seconds and
\* the suffix "corrupted"; the queue file stays where it is
create_backup(existing, content, t) ==
    IF content = Absent THEN existing
    ELSE {b \in existing : b[1] # t} \cup {<<t, content>>}

(* ------------------------------------------------------------------ *)
(* RSSCollector: deduplicate                                            *)
(* ------------------------------------------------------------------ *)

\* titles are sequences of characters
UpperLetters == <<"A", "B", "C", "D", "E", "F", "G", "H", "I", "J", "K", "L", "M", "N", "O", "P", "Q", "R", "S", "T", "U", "V", "W", "X", "Y", "Z">>
LowerLetters == <<"a", "b", "c", "d", "e", "f", "g", "h", "i", "j", "k", "l", "m", "n", "o", "p", "q", "r", "s", "t", "u", "v", "w", "x", "y", "z">>

\* the lowercase letter of each uppercase letter
LowerOf ==
    [c \in {UpperLetters[i] : i \in DOMAIN UpperLetters} |->
        LowerLetters[CHOOSE i \in DOMAIN UpperLetters : UpperLetters[i] = c]]

LowerChar(c) == IF c \in DOMAIN LowerOf THEN LowerOf[c] ELSE c

\* str.lower()
lower(title) == [i \in 1..Len(title) |-> LowerChar(title[i])]

\* str.split(): the maximal runs of characters that are no whitespace
RECURSIVE split_from(_, _, _)
split_from(text, word, words) ==
    IF text = <<>>
    THEN IF word = <<>> THEN words ELSE Append(words, word)
    ELSE IF Head(text) = " "
    THEN split_from(Tail(text), <<>>, IF word = <<>> THEN words ELSE Append(words, word))
    ELSE split_from(Tail(text), Append(word, Head(text)), words)

split(text) == split_from(text, <<>>, <<>>)

\* ' '.join(words)
RECURSIVE join(_)
join(words) ==
    IF words = <<>> THEN <<>>
    ELSE IF Len(words) = 1 THEN words[1]
    ELSE words[1] \o <<" ">> \o join(Tail(words))

normalized_title(title) == join(split(lower(title)))

\* hashlib.sha256(...).hexdigest(): one digest per text (collisions of
\* SHA-256 are left out)
sha256(text) == [sha256 |-> text]

generate_title_hash(title) == sha256(normalized_title(title))

\* the state of the loop of deduplicate
DedupState(urls, hashes, out) ==
    [seen_urls |-> urls, seen_hashes |-> hashes, deduplicated |-> out]

dedup_step_title_only(article, st) ==
    IF generate_title_hash(article.title) \in st.seen_hashes THEN st
    ELSE DedupState(st.seen_urls \cup {article.url},
                    st.seen_hashes \cup {generate_title_hash(article.title)},
                    Append(st.deduplicated, article))

dedup_step_url_only(article, st) ==
    IF article.url \in st.seen_urls THEN st
    ELSE DedupState(st.seen_urls \cup {article.url},
                    st.seen_hashes \cup {generate_title_hash(article.title)},
                    Append(st.deduplicated, article))

dedup_step_marks_dropped(article, st) ==
    IF article.url \in st.seen_urls THEN st
    ELSE IF generate_title_hash(article.title) \in st.seen_hashes
    THEN [st EXCEPT !.seen_urls = @ \cup {article.url}]
    ELSE DedupState(st.seen_urls \cup {article.url},
                    st.seen_hashes \cup {generate_title_hash(article.title)},
                    Append(st.deduplicated, article))

\* one iteration of the loop of deduplicate: continue on a seen URL,
\* continue on a seen title hash, else record both and keep the article
dedup_step(article, st) ==
    IF article.url \in st.seen_urls THEN st
    ELSE IF generate_title_hash(article.title) \in st.seen_hashes THEN st
    ELSE DedupState(st.seen_urls \cup {article.url},
                    st.seen_hashes \cup {generate_title_hash(article.title)},
                    Append(st.deduplicated, article))

RECURSIVE dedup_loop(_, _)
dedup_loop(articles, st) ==
    IF articles = <<>> THEN st
    ELSE dedup_loop(Tail(articles), dedup_step(Head(articles), st))

deduplicate(articles) == dedup_loop(articles, DedupState({}, {}, <<>>)).deduplicated

(* ------------------------------------------------------------------ *)
(* Initial state: a fresh RetryQueue() at time 0                        *)
(* ------------------------------------------------------------------ *)
InitQueue ==
    /\ items = <<>>
    /\ last_updated = 0
    /\ qcall = [op |-> "none"]
    /\ roundtrip = [op |-> "none"]

InitMulti ==
    /\ provider_status = [p \in Providers |-> NewProviderStatus]
    /\ errors_since_success = [p \in Providers |-> 0]
    /\ cache = {}
    /\ call = [op |-> "init"]

\* a new RetryStorage on an empty directory, no save in progress
Idle == [pc |-> "idle"]

InitStorage ==
    /\ totals = ZeroTotals
    /\ file = Absent
    /\ temp = Absent
    /\ save = Idle
    /\ committed = [t |-> "nothing"]
    /\ loaded = [result |-> "not called"]

\* no lock is held on the queue file, no second process is reading it
InitLock ==
    /\ flock = {}
    /\ reader = [pc |-> "idle"]

\* RSSCollector(sources): max_retries defaults to 3; no collect_all has run
InitCollect ==
    /\ collector = [max_retries |-> DefaultCollectorRetries]
    /\ tasks = [s \in Sources |-> [pc |-> "none"]]
    /\ collect = [pc |-> "idle"]
    /\ dedup = [op |-> "none"]

InitPipeline ==
    /\ classified = [op |-> "none"]
    /\ pipeline = [pc |-> "start"]
    /\ built = [op |-> "none"]
    /\ objects = <<>>

\* no _process_article_with_retry has run, no backup file exists, neither
\* of the two processes has loaded the queue file
InitShared ==
    /\ attempts = [pc |-> "idle"]
    /\ backups = {}
    /\ procs = [p \in {"first", "second"} |-> [pc |-> "idle"]]

Init ==
    /\ now = 0
    /\ InitShared
    /\ InitQueue
    /\ InitMulti
    /\ InitStorage
    /\ InitLock
    /\ InitCollect
    /\ InitPipeline

(* ------------------------------------------------------------------ *)
(* Retry-queue operations                                               *)
(* ------------------------------------------------------------------ *)
QueueTick == QueueTickDays * DaySeconds
RetryCounts == {0, DefaultMaxRetries - 1, DefaultMaxRetries}
RetryDelays == {0, QueueTick}

\* the RetryQueue object of the process
CurrentQueue == Queue(items, last_updated, totals)

\* the record of a RetryQueue call: the operation and its argument, the
\* time, the queue before and after it, and the value it returned
QueueCall(op, arg, before, after, ret) ==
    [op |-> op, arg |-> arg, t |-> now, before |-> before, after |-> after, ret |-> ret]

\* the clock advances
TickQueue ==
    /\ now < MaxQueueTicks * QueueTick
    /\ now' = now + QueueTick
    /\ UNCHANGED <<qvars, qcall, others_q>>

\* add_item(item) with an item built by the dataclass constructor
AddItem ==
    \E id \in Ids, c \in RetryCounts, d \in RetryDelays :
        /\ items' = add_item(items,
                RetryQueueItem(id, "error", c, now + d, DefaultMaxRetries, now))
        /\ last_updated' = now
        /\ qcall' = [op |-> "add_item"]
        /\ UNCHANGED <<now, others_q>>

\* a failed article is enqueued: from_raw_news_item, then add_item
EnqueueFailedOf(id, d) ==
    /\ items' = add_item(items, from_raw_news_item(id, "processing failed", now + d, now))
    /\ last_updated' = now
    /\ qcall' = [op |-> "add_item"]
    /\ UNCHANGED <<now, others_q>>

EnqueueFailed == \E id \in Ids, d \in RetryDelays : EnqueueFailedOf(id, d)

\* an entry offered by get_retry_candidates is retried, fails again and is
\* re-enqueued: from_raw_news_item, then add_item
IsRetryCandidate(id) ==
    \E i \in 1..Len(get_retry_candidates(items, now)) :
        get_retry_candidates(items, now)[i].id = id

RetryFailedOf(id, d) ==
    /\ IsRetryCandidate(id)
    /\ EnqueueFailedOf(id, d)

RetryFailed == \E id \in Ids, d \in RetryDelays : RetryFailedOf(id, d)

\* remove_item(item_id), for a present or an absent id
RemoveItem ==
    \E id \in Ids :
        /\ items' = remove_item(items, id)[1]
        /\ last_updated' = IF remove_item(items, id)[2] THEN now ELSE last_updated
        /\ qcall' = QueueCall("remove_item", id, CurrentQueue,
                              Queue(items', last_updated', totals),
                              remove_item(items, id)[2])
        /\ UNCHANGED <<now, others_q>>

\* cleanup_old_entries(days)
CleanupOldEntries ==
    \E days \in {DefaultCleanupDays} :
        /\ items' = cleanup_old_entries(items, days, now)
        /\ last_updated' = IF Len(items) - Len(items') > 0 THEN now ELSE last_updated
        /\ qcall' = QueueCall("cleanup_old_entries", days, CurrentQueue,
                              Queue(items', last_updated', totals),
                              Len(items) - Len(items'))
        /\ UNCHANGED <<now, others_q>>

\* get_retry_candidates()
GetRetryCandidates ==
    /\ qcall' = QueueCall("get_retry_candidates", None, CurrentQueue, CurrentQueue,
                          get_retry_candidates(items, now))
    /\ UNCHANGED <<now, qvars, others_q>>

NextQueue ==
    \/ GetRetryCandidates
    \/ TickQueue
    \/ AddItem
    \/ EnqueueFailed
    \/ RetryFailed
    \/ RemoveItem
    \/ CleanupOldEntries

SpecQueue == Init /\ [][NextQueue]_vars

(* ------------------------------------------------------------------ *)
(* Provider health record operations                                    *)
(* ------------------------------------------------------------------ *)

\* ProviderStatus.mark_error(error)
MarkErrorCall ==
    \E p \in Providers :
        /\ provider_status[p].error_count < MaxErrors
        /\ provider_status' = [provider_status EXCEPT ![p] = mark_error(@, "error")]
        /\ errors_since_success' = [errors_since_success EXCEPT ![p] = @ + 1]
        /\ call' = [op |-> "mark_error", provider |-> p,
                    before |-> provider_status[p].error_count]
        /\ UNCHANGED <<now, cache, others_m>>

\* ProviderStatus.mark_success()
MarkSuccessCall ==
    \E p \in Providers :
        /\ provider_status' = [provider_status EXCEPT ![p] = mark_success(@)]
        /\ errors_since_success' = [errors_since_success EXCEPT ![p] = 0]
        /\ call' = [op |-> "mark_success", provider |-> p,
                    before |-> provider_status[p].error_count]
        /\ UNCHANGED <<now, cache, others_m>>

NextHealth ==
    \/ MarkErrorCall
    \/ MarkSuccessCall

SpecHealth == Init /\ [][NextHealth]_vars

(* ------------------------------------------------------------------ *)
(* MultiAISummarizer operations                                         *)
(* ------------------------------------------------------------------ *)

TickMulti ==
    /\ now < MaxMultiTicks * MultiTick
    /\ now' = now + MultiTick
    /\ UNCHANGED <<mvars, others_m>>

HistoryAfter(calls) ==
    [p \in Providers |-> CountAfter(errors_since_success[p], p, calls)]

\* summarize_article(article)
SummarizeArticle ==
    \E a \in Ids, outcome \in [Providers -> Outcomes] :
        LET r == summarize_article(provider_status, cache, a, outcome, now) IN
        /\ provider_status' = r.status
        /\ cache' = IF r.put THEN cache_put(cache, a, r.result.value) ELSE cache
        /\ errors_since_success' = HistoryAfter(r.calls)
        /\ call' = [op |-> "summarize_article", article |-> a,
                    calls |-> r.calls, result |-> r.result]
        /\ UNCHANGED <<now, others_m>>

RECURSIVE SortedSeq(_)
SortedSeq(S) ==
    IF S = {} THEN <<>>
    ELSE LET m == CHOOSE x \in S : \A y \in S : x <= y
         IN  <<m>> \o SortedSeq(S \ {m})

ArticleLists == {SortedSeq(S) : S \in (SUBSET Ids) \ {{}}}

Range(f) == {f[x] : x \in DOMAIN f}

BatchStep(articles, assign, okset, raises) ==
    LET r == batch_process(provider_status, cache, articles, assign, okset, raises, now) IN
    /\ provider_status' = r.status
    /\ errors_since_success' = HistoryAfter(r.calls)
    /\ call' = [op |-> "batch_process", articles |-> articles,
                calls |-> r.calls, result |-> r.result,
                available |-> Range(AvailableProviders(provider_status, now)),
                dispatched |-> {<<a, assign[a]>> : a \in DOMAIN assign},
                succeeded |-> okset]
    /\ UNCHANGED <<now, cache, others_m>>

\* batch_process(articles): nothing is dispatched when every article is
\* cached, when the filter of _distribute_articles raises or when it finds
\* no provider; else every new article is drawn to an available provider
BatchProcess ==
    \E articles \in ArticleLists :
        LET new == {a \in Range(articles) : ~cache_hit(cache, a)}
            avail == Range(AvailableProviders(provider_status, now))
        IN  IF new = {} \/ FilterRaises(provider_status, now) \/ avail = {}
            THEN BatchStep(articles, <<>>, {}, {})
            ELSE \E assign \in [new -> avail] :
                 \E raises \in SUBSET Range(assign) :
                 \E okset \in SUBSET {a \in new : assign[a] \notin raises} :
                     BatchStep(articles, assign, okset, raises)

\* analyze_daily_trends(articles)
AnalyzeDailyTrends ==
    \E n \in 0..NumIds, outcome \in {"ok", "raise"} :
        LET r == analyze_daily_trends(provider_status, n, outcome, now) IN
        /\ provider_status' = r.status
        /\ errors_since_success' = HistoryAfter(r.calls)
        /\ call' = [op |-> "analyze_daily_trends", articles |-> n,
                    calls |-> r.calls, result |-> r.result]
        /\ UNCHANGED <<now, cache, others_m>>

NextMulti ==
    \/ TickMulti
    \/ SummarizeArticle
    \/ BatchProcess
    \/ AnalyzeDailyTrends

SpecMulti == Init /\ [][NextMulti]_vars

(* ------------------------------------------------------------------ *)
(* RetryStorage operations                                              *)
(* ------------------------------------------------------------------ *)

\* json.dump, flush and fsync write to the path of save_write_path
WriteContent(content) ==
    IF save_write_path = "temp"
    THEN temp' = content /\ file' = file
    ELSE file' = content /\ temp' = temp

\* the process changes its queue between two calls of RetryStorage
StorageEnqueue ==
    /\ save.pc = "idle"
    /\ \E id \in Ids :
          /\ items' = add_item(items, from_raw_news_item(id, "processing failed", now, now))
          /\ last_updated' = now
    /\ UNCHANGED <<now, qcall, xvars, mvars, svars>>

StorageRemove ==
    /\ save.pc = "idle"
    /\ \E id \in Ids :
          /\ remove_item(items, id)[2]
          /\ items' = remove_item(items, id)[1]
          /\ last_updated' = now
    /\ UNCHANGED <<now, qcall, xvars, mvars, svars>>

\* save_queue, step 1: the temporary file is created (empty) and queue.to_dict()
\* and save_data are built
SaveBegin ==
    /\ save.pc = "idle"
    /\ save' = [pc |-> "opened", queue |-> CurrentQueue,
                data |-> save_data(CurrentQueue, now)]
    /\ WriteContent(Truncated)
    /\ UNCHANGED <<now, qcall, xvars, qvars, mvars, totals, committed, loaded>>

\* save_queue, step 2: json.dump has written a part of the text
SaveWrite ==
    /\ save.pc = "opened"
    /\ save' = [save EXCEPT !.pc = "writing"]
    /\ WriteContent(Truncated)
    /\ UNCHANGED <<now, qcall, xvars, qvars, mvars, totals, committed, loaded>>

\* save_queue, step 3: json.dump is complete, flush and os.fsync are done
SaveFlush ==
    /\ save.pc = "writing"
    /\ save' = [save EXCEPT !.pc = "written"]
    /\ WriteContent(JsonText(save.data))
    /\ UNCHANGED <<now, qcall, xvars, qvars, mvars, totals, committed, loaded>>

\* save_queue, step 4: shutil.move renames the temporary file to file_path
\* (same directory, so os.rename: one atomic step); returns True
SaveMove ==
    /\ save.pc = "written"
    /\ save' = Idle
    /\ IF save_write_path = "temp"
       THEN file' = temp /\ temp' = Absent
       ELSE UNCHANGED <<file, temp>>
    /\ committed' = [t |-> "queue", queue |-> save.queue]
    /\ UNCHANGED <<now, qcall, xvars, qvars, mvars, totals, loaded>>

\* save_queue, except branch: a write fails (disk full, permission); the
\* temporary file is unlinked and False is returned
SaveError ==
    /\ save.pc \in {"opened", "writing"}
    /\ save' = Idle
    /\ temp' = Absent
    /\ UNCHANGED <<now, qcall, xvars, qvars, mvars, totals, file, committed, loaded>>

\* the process dies inside save_queue: its queue object is gone, its
\* temporary file is left behind under a name nothing opens again
Crash ==
    /\ save.pc # "idle"
    /\ save' = [pc |-> "idle", interrupted |-> save.queue]
    /\ temp' = Absent
    /\ items' = <<>>
    /\ last_updated' = now
    /\ totals' = ZeroTotals
    /\ loaded' = [result |-> "not called"]
    /\ UNCHANGED <<now, qcall, xvars, mvars, file, committed>>

\* load_queue(); the caller goes on with the returned queue
LoadQueue ==
    /\ save.pc = "idle"
    /\ LET r == load_queue(file, now) IN
       /\ loaded' = [read |-> file, ret |-> r]
       /\ backups' = IF r.backup THEN create_backup(backups, file, now) ELSE backups
       /\ IF r.result = "queue"
          THEN /\ items' = r.queue.items
               /\ last_updated' = r.queue.last_updated
               /\ totals' = r.queue.totals
          ELSE UNCHANGED <<items, last_updated, totals>>
    /\ UNCHANGED <<now, qcall, roundtrip, lvars, cvars, pvars, attempts, procs, mvars,
                   file, temp, save, committed>>

NextStorage ==
    \/ StorageEnqueue
    \/ StorageRemove
    \/ SaveBegin
    \/ SaveWrite
    \/ SaveFlush
    \/ SaveMove
    \/ SaveError
    \/ Crash
    \/ LoadQueue

SpecStorage == Init /\ [][NextStorage]_vars

(* ------------------------------------------------------------------ *)
(* Queue files load_queue can meet                                      *)
(* ------------------------------------------------------------------ *)

WithField(j, key, value) ==
    JObj([k \in DOMAIN j.f \cup {key} |-> IF k = key THEN value ELSE j.f[k]])

WithoutField(j, key) == JObj([k \in DOMAIN j.f \ {key} |-> j.f[k]])

SampleItem(id) == from_raw_news_item(id, "processing failed", 0, 0)

SampleQueues ==
    {NewRetryQueue(0)} \cup {Queue(<<SampleItem(id)>>, 0, ZeroTotals) : id \in Ids}

\* files save_queue writes
ValidContents == {JsonText(save_data(q, 0)) : q \in SampleQueues}

BaseItem == item_to_dict(SampleItem(1))
BaseQueue == queue_to_dict(Queue(<<SampleItem(1)>>, 0, ZeroTotals))
BaseData == save_data(Queue(<<SampleItem(1)>>, 0, ZeroTotals), 0)

WithItems(elems) == WithField(BaseData, "queue", WithField(BaseQueue, "items", elems))

\* files that are no saved queue: text that is no JSON, and JSON of another
\* structure
MalformedContents ==
    { Truncated,
      JsonText(JList(<<>>)),
      JsonText(WithoutField(BaseData, "queue")),
      JsonText(WithField(BaseData, "queue", JList(<<>>))),
      JsonText(WithItems(JNum(0))),
      JsonText(WithItems(JList(<<JStr("entry")>>))),
      JsonText(WithItems(JList(<<WithoutField(BaseItem, "retry_count")>>))),
      JsonText(WithItems(JList(<<WithField(BaseItem, "next_retry_time", JStr("soon"))>>))),
      JsonText(WithField(BaseData, "queue",
                         WithField(BaseQueue, "last_updated", JStr("yesterday")))) }

\* the queue file is replaced from outside the program (a damaged disk, an
\* editor, another tool)
WriteFileExternally ==
    /\ save.pc = "idle"
    /\ \E c \in ValidContents \cup MalformedContents : file' = c
    /\ UNCHANGED <<now, qcall, xvars, qvars, mvars, totals, temp, save, committed, loaded>>

NextLoad ==
    \/ WriteFileExternally
    \/ LoadQueue
    \/ TickQueue

SpecLoad == Init /\ [][NextLoad]_vars

(* ------------------------------------------------------------------ *)
(* Two processes on one queue file: one saves, one loads                *)
(* ------------------------------------------------------------------ *)

\* fcntl.flock(f, LOCK_SH) returns when no other process holds LOCK_EX
CanLockShared(p) == ~\E h \in flock : h[1] # p /\ h[2] = "EX"

\* load_queue in the second process, file_path.exists() is false:
\* RetryQueue() is returned at once
ReaderNoFile ==
    /\ reader.pc = "idle"
    /\ file = Absent
    /\ reader' = [pc |-> "idle", ret |-> load_queue(file, now)]
    /\ UNCHANGED <<now, qvars, qcall, mvars, svars, rvars, pvars, roundtrip, flock, cvars>>

\* open(file_path, 'r'): the descriptor names the file that holds the path
\* now; a later rename over the path does not change what it reads
ReaderOpen ==
    /\ reader.pc = "idle"
    /\ file # Absent
    /\ reader' = [pc |-> "opened", content |-> file]
    /\ UNCHANGED <<now, qvars, qcall, mvars, svars, rvars, pvars, roundtrip, flock, cvars>>

\* fcntl.flock(f.fileno(), fcntl.LOCK_SH)
ReaderFlock ==
    /\ reader.pc = "opened"
    /\ CanLockShared("reader")
    /\ flock' = flock \cup {<<"reader", "SH">>}
    /\ reader' = [reader EXCEPT !.pc = "locked"]
    /\ UNCHANGED <<now, qvars, qcall, mvars, svars, rvars, pvars, roundtrip, cvars>>

\* json.load(f), data.get, RetryQueue.from_dict, under the lock
ReaderRead ==
    /\ reader.pc = "locked"
    /\ reader' = [pc |-> "read", content |-> reader.content,
                  ret |-> load_queue(reader.content, now)]
    /\ backups' = IF load_queue(reader.content, now).backup
                  THEN create_backup(backups, file, now) ELSE backups
    /\ UNCHANGED <<now, qvars, qcall, mvars, svars, attempts, procs, pvars, roundtrip, flock, cvars>>

\* finally: fcntl.flock(f.fileno(), fcntl.LOCK_UN); the file is closed and
\* load_queue returns
ReaderUnlock ==
    /\ reader.pc = "read"
    /\ flock' = flock \ {<<"reader", "SH">>}
    /\ reader' = [pc |-> "idle", ret |-> reader.ret]
    /\ UNCHANGED <<now, qvars, qcall, mvars, svars, rvars, pvars, roundtrip, cvars>>

NextLock ==
    \/ StorageEnqueue
    \/ StorageRemove
    \/ SaveBegin
    \/ SaveWrite
    \/ SaveFlush
    \/ SaveMove
    \/ SaveError
    \/ ReaderNoFile
    \/ ReaderOpen
    \/ ReaderFlock
    \/ ReaderRead
    \/ ReaderUnlock

SpecLock == Init /\ [][NextLock]_vars

(* ------------------------------------------------------------------ *)
(* RetryQueue.from_dict(queue.to_dict())                                *)
(* ------------------------------------------------------------------ *)

\* provider_failures of an entry: provider -> number of failures, as a set
\* of pairs
ProviderFailureSamples == {{}, {<<"claude", 1>>}, {<<"claude", 2>>, <<"openai", 1>>}}

\* the counters of a queue that has processed nothing, and of one that has
CounterSamples ==
    {ZeroTotals, [total_processed |-> 3, total_succeeded |-> 2, total_failed |-> 1]}

\* add_item of an entry built by the dataclass constructor, created at
\* time 0 and failed now
AddItemWithFailures ==
    /\ roundtrip.op = "none"
    /\ \E id \in Ids, c \in {0, DefaultMaxRetries}, pf \in ProviderFailureSamples :
          /\ items' = add_item(items,
                [RetryQueueItem(id, "error", c, now + QueueTick, DefaultMaxRetries, 0)
                    EXCEPT !.failure_timestamp = now, !.provider_failures = pf])
          /\ last_updated' = now
          /\ qcall' = [op |-> "add_item"]
    /\ UNCHANGED <<now, others_q>>

\* the counters are set by the code that owns the queue
SetCounters ==
    /\ roundtrip.op = "none"
    /\ \E c \in CounterSamples : totals' = c
    /\ UNCHANGED <<now, qvars, qcall, mvars, file, temp, save, committed, loaded, xvars>>

TickRoundTrip ==
    /\ roundtrip.op = "none"
    /\ TickQueue

\* RetryQueue.from_dict(queue.to_dict()) on the queue of the process
RoundTrip ==
    /\ roundtrip.op = "none"
    /\ roundtrip' = [op |-> "roundtrip", queue |-> CurrentQueue,
                     dict |-> queue_to_dict(CurrentQueue),
                     back |-> queue_from_dict(queue_to_dict(CurrentQueue), now)]
    /\ UNCHANGED <<now, qvars, qcall, mvars, svars, rvars, pvars, lvars, cvars>>

NextRoundTrip ==
    \/ AddItemWithFailures
    \/ SetCounters
    \/ TickRoundTrip
    \/ RoundTrip

SpecRoundTrip == Init /\ [][NextRoundTrip]_vars

(* ------------------------------------------------------------------ *)
(* deduplicate on every list of raw items                               *)
(* ------------------------------------------------------------------ *)

\* "AI N" and " ai  n " have one normalized title, "AIN" and "ML" two
\* others
TitleSamples ==
    { <<"A", "I", " ", "N">>,
      <<" ", "a", "i", " ", " ", "n", " ">>,
      <<"A", "I", "N">>,
      <<"M", "L">> }

\* RawNewsItem: __post_init__ gives every object an id of its own
RawNewsItem(id, url, title) == [id |-> id, url |-> url, title |-> title]

\* the lists of up to MaxArticles raw items; the id of an item is its
\* place in the list
RawItemLists ==
    UNION { { [i \in 1..n |-> RawNewsItem(i, f[i][1], f[i][2])] :
                f \in [1..n -> Urls \X TitleSamples] } : n \in 0..MaxArticles }

\* deduplicate(articles), once for every list
Deduplicate ==
    /\ dedup.op = "none"
    /\ \E articles \in RawItemLists :
          dedup' = [op |-> "deduplicate", articles |-> articles,
                    ret |-> deduplicate(articles)]
    /\ UNCHANGED <<now, qvars, qcall, mvars, svars, rvars, pvars, roundtrip, lvars, collector, tasks, collect>>

NextDedup == Deduplicate

SpecDedup == Init /\ [][NextDedup]_vars

(* ------------------------------------------------------------------ *)
(* RSSCollector: collect_all and _collect_from_source                   *)
(* ------------------------------------------------------------------ *)

\* max_retries of the collectors built: 0, 1 (as in the tests) and the
\* default
RetrySettings == {0, 1, DefaultCollectorRetries}

\* the article only source s carries, and an article every source carries
\* (under one URL, its title in another case and spacing per source)
OwnArticle(src) == RawNewsItem(10 * src + 1, src, [i \in 1..src |-> "M"])

CommonArticle(src) ==
    RawNewsItem(10 * src + 2, 0,
        IF src = 1 THEN <<"A", "I", " ", "N">>
                   ELSE <<" ", "a", "i", " ", " ", "n", " ">>)

\* what _fetch_and_parse of source s returns when it does not raise: the
\* normalized entries of the feed (none when every entry is invalid)
FeedSamples(src) ==
    {<<>>, <<OwnArticle(src)>>, <<OwnArticle(src), CommonArticle(src)>>}

wait_time_one_step_ahead(attempt) == 2 ^ (attempt + 1)

\* wait_time = 2 ** attempt
wait_time(attempt) == 2 ^ attempt

\* the task of a source: the index of its attempt, the attempts made, the
\* failed ones, the sleeps it has taken, and how it ended
NewTask(max) ==
    IF max = 0
    THEN [pc |-> "raised", attempt |-> 0, attempts |-> 0, failures |-> 0, waits |-> <<>>]
    ELSE [pc |-> "fetch", attempt |-> 0, attempts |-> 0, failures |-> 0, waits |-> <<>>]

return_exceptions_off == FALSE

\* asyncio.gather(*tasks, return_exceptions=True)
return_exceptions == TRUE

\* RSSCollector(sources, max_retries=m)
NewCollector ==
    /\ collect.pc = "idle"
    /\ \E m \in RetrySettings : collector' = [max_retries |-> m]
    /\ UNCHANGED <<now, qvars, qcall, mvars, svars, rvars, pvars, roundtrip, lvars, tasks, collect, dedup>>

\* collect_all: one _collect_from_source task per source; a task whose
\* range(max_retries) is empty raises at once
CollectAllBegin ==
    /\ collect.pc = "idle"
    /\ tasks' = [src \in Sources |-> NewTask(collector.max_retries)]
    /\ collect' = [pc |-> "gathering"]
    /\ UNCHANGED <<now, qvars, qcall, mvars, svars, rvars, pvars, roundtrip, lvars, collector, dedup>>

\* the number of tasks that have returned
ReturnedTasks(ts) == Cardinality({src \in Sources : ts[src].pc = "returned"})

\* _fetch_and_parse returns the articles of the feed; order is the place
\* of the task among the tasks that returned, in the order of completion
FetchSucceeds(src) ==
    /\ collect.pc = "gathering"
    /\ tasks[src].pc = "fetch"
    /\ \E feed \in FeedSamples(src) :
          tasks' = [tasks EXCEPT ![src] =
                      [@ EXCEPT !.pc = "returned", !.attempts = @ + 1] @@
                      [served |-> feed, result |-> feed, order |-> ReturnedTasks(tasks)]]
    /\ UNCHANGED <<now, qvars, qcall, mvars, svars, rvars, pvars, roundtrip, lvars, collector, collect, dedup>>

\* _fetch_and_parse raises (HTTP status, timeout, no entries): sleep
\* wait_time before the next attempt, or leave the loop after the last one
\* and raise RSSCollectionError
FetchFails(src) ==
    /\ collect.pc = "gathering"
    /\ tasks[src].pc = "fetch"
    /\ tasks' = [tasks EXCEPT ![src] =
          IF @.attempt < collector.max_retries - 1
          THEN [@ EXCEPT !.pc = "sleep", !.attempts = @ + 1, !.failures = @ + 1,
                         !.waits = Append(@, wait_time(tasks[src].attempt))]
          ELSE [@ EXCEPT !.pc = "raised", !.attempts = @ + 1, !.failures = @ + 1]]
    /\ UNCHANGED <<now, qvars, qcall, mvars, svars, rvars, pvars, roundtrip, lvars, collector, collect, dedup>>

\* asyncio.sleep(wait_time) is over: the next attempt
SleepEnds(src) ==
    /\ collect.pc = "gathering"
    /\ tasks[src].pc = "sleep"
    /\ tasks' = [tasks EXCEPT ![src] = [@ EXCEPT !.pc = "fetch", !.attempt = @ + 1]]
    /\ UNCHANGED <<now, qvars, qcall, mvars, svars, rvars, pvars, roundtrip, lvars, collector, collect, dedup>>

\* the results of the sources from src on that returned, in source order
RECURSIVE all_articles(_, _)
all_articles(ts, src) ==
    IF src \notin Sources THEN <<>>
    ELSE (IF ts[src].pc = "returned" THEN ts[src].result ELSE <<>>)
            \o all_articles(ts, src + 1)

\* every task has ended: gather returns (with return_exceptions the
\* exceptions are results), the results of the sources that returned are
\* joined in source order and deduplicated
CollectAllEnd ==
    /\ collect.pc = "gathering"
    /\ \A src \in Sources : tasks[src].pc \in {"returned", "raised"}
    /\ collect' =
          IF ~return_exceptions /\ \E src \in Sources : tasks[src].pc = "raised"
          THEN [pc |-> "done", kind |-> "raised RSSCollectionError"]
          ELSE [pc |-> "done", kind |-> "returned",
                successful_sources |-> {src \in Sources : tasks[src].pc = "returned"},
                ret |-> deduplicate(all_articles(tasks, 1))]
    /\ UNCHANGED <<now, qvars, qcall, mvars, svars, rvars, pvars, roundtrip, lvars, collector, tasks, dedup>>

NextCollect ==
    \/ NewCollector
    \/ CollectAllBegin
    \/ \E src \in Sources : FetchSucceeds(src)
    \/ \E src \in Sources : FetchFails(src)
    \/ \E src \in Sources : SleepEnds(src)
    \/ CollectAllEnd

SpecCollect == Init /\ [][NextCollect]_vars

\* a fetch ends (the session has a total timeout), a sleep ends, and the
\* event loop runs collect_all on when every task is done
SpecCollectFair ==
    /\ SpecCollect
    /\ WF_vars(\E src \in Sources : FetchSucceeds(src) \/ FetchFails(src))
    /\ WF_vars(\E src \in Sources : SleepEnds(src))
    /\ WF_vars(CollectAllEnd)

(* ------------------------------------------------------------------ *)
(* ErrorClassifier                                                       *)
(* ------------------------------------------------------------------ *)
Digits == <<"0", "1", "2", "3", "4", "5", "6", "7", "8", "9">>
IsDigit(c) == \E i \in DOMAIN Digits : Digits[i] = c
DigitValue(c) == (CHOOSE i \in DOMAIN Digits : Digits[i] = c) - 1

\* a character of \w
IsWordChar(c) ==
    \/ IsDigit(c)
    \/ c = "_"
    \/ \E i \in DOMAIN LowerLetters : LowerLetters[i] = c \/ UpperLetters[i] = c

\* the characters of a class [...] of a pattern: a range a-b of digits or
\* the characters listed
char_class(body) ==
    IF Len(body) = 3 /\ body[2] = "-"
    THEN {Digits[k] : k \in (DigitValue(body[1]) + 1)..(DigitValue(body[3]) + 1)}
    ELSE {body[k] : k \in DOMAIN body}

\* the pattern matches the text from place i on; the patterns of the
\* tables are made of literal characters, .? and classes, and are matched
\* with re.IGNORECASE
RECURSIVE re_match_at(_, _, _)
re_match_at(pattern, text, i) ==
    IF pattern = <<>> THEN TRUE
    ELSE IF Len(pattern) >= 2 /\ pattern[1] = "." /\ pattern[2] = "?"
    THEN \/ (i <= Len(text) /\ re_match_at(SubSeq(pattern, 3, Len(pattern)), text, i + 1))
         \/ re_match_at(SubSeq(pattern, 3, Len(pattern)), text, i)
    ELSE IF pattern[1] = "["
    THEN LET close == CHOOSE k \in 2..Len(pattern) :
                          pattern[k] = "]" /\ \A j \in 2..(k - 1) : pattern[j] # "]"
         IN  /\ i <= Len(text)
             /\ text[i] \in char_class(SubSeq(pattern, 2, close - 1))
             /\ re_match_at(SubSeq(pattern, close + 1, Len(pattern)), text, i + 1)
    ELSE /\ i <= Len(text)
         /\ LowerChar(text[i]) = LowerChar(pattern[1])
         /\ re_match_at(Tail(pattern), text, i + 1)

\* re.search(pattern, text, re.IGNORECASE)
re_search(pattern, text) == \E i \in 1..(Len(text) + 1) : re_match_at(pattern, text, i)

\* part in text
contains(text, part) ==
    \E i \in 1..(Len(text) - Len(part) + 1) : SubSeq(text, i, i + Len(part) - 1) = part

\* the pattern tables: the categories in the order of the dict, each with
\* its patterns
openai_patterns ==
    <<<<"rate_limit",
         << <<"r", "a", "t", "e", "_", "l", "i", "m", "i", "t", "_", "e", "x", "c", "e", "e", "d", "e", "d">>,
            <<"r", "a", "t", "e", " ", "l", "i", "m", "i", "t", " ", "e", "x", "c", "e", "e", "d", "e", "d">>,
            <<"t", "o", "o", " ", "m", "a", "n", "y", " ", "r", "e", "q", "u", "e", "s", "t", "s">>,
            <<"4", "2", "9">>,
            <<"r", "e", "q", "u", "e", "s", "t", "s", " ", "p", "e", "r", " ", "m", "i", "n", "u", "t", "e">>,
            <<"r", "e", "q", "u", "e", "s", "t", "s", " ", "p", "e", "r", " ", "d", "a", "y">> >> >>,
       <<"quota_exceeded",
         << <<"q", "u", "o", "t", "a", " ", "e", "x", "c", "e", "e", "d", "e", "d">>,
            <<"i", "n", "s", "u", "f", "f", "i", "c", "i", "e", "n", "t", "_", "q", "u", "o", "t", "a">>,
            <<"b", "i", "l", "l", "i", "n", "g", "_", "n", "o", "t", "_", "a", "c", "t", "i", "v", "e">>,
            <<"u", "s", "a", "g", "e", " ", "l", "i", "m", "i", "t", " ", "e", "x", "c", "e", "e", "d", "e", "d">>,
            <<"c", "r", "e", "d", "i", "t", " ", "l", "i", "m", "i", "t", " ", "e", "x", "c", "e", "e", "d", "e", "d">> >> >>,
       <<"network_error",
         << <<"c", "o", "n", "n", "e", "c", "t", "i", "o", "n", " ", "e", "r", "r", "o", "r">>,
            <<"n", "e", "t", "w", "o", "r", "k", " ", "e", "r", "r", "o", "r">>,
            <<"c", "o", "n", "n", "e", "c", "t", "i", "o", "n", " ", "t", "i", "m", "e", "o", "u", "t">>,
            <<"c", "o", "n", "n", "e", "c", "t", "i", "o", "n", " ", "r", "e", "f", "u", "s", "e", "d">>,
            <<"d", "n", "s", " ", "r", "e", "s", "o", "l", "u", "t", "i", "o", "n", " ", "f", "a", "i", "l", "e", "d">> >> >>,
       <<"service_error",
         << <<"s", "e", "r", "v", "i", "c", "e", "_", "u", "n", "a", "v", "a", "i", "l", "a", "b", "l", "e">>,
            <<"5", "0", "2", " ", "b", "a", "d", " ", "g", "a", "t", "e", "w", "a", "y">>,
            <<"5", "0", "3", " ", "s", "e", "r", "v", "i", "c", "e", " ", "u", "n", "a", "v", "a", "i", "l", "a", "b", "l", "e">>,
            <<"5", "0", "4", " ", "g", "a", "t", "e", "w", "a", "y", " ", "t", "i", "m", "e", "o", "u", "t">>,
            <<"i", "n", "t", "e", "r", "n", "a", "l", " ", "s", "e", "r", "v", "e", "r", " ", "e", "r", "r", "o", "r">>,
            <<"5", "0", "0">> >> >>,
       <<"timeout_error",
         << <<"t", "i", "m", "e", "o", "u", "t">>,
            <<"r", "e", "q", "u", "e", "s", "t", " ", "t", "i", "m", "e", "o", "u", "t">>,
            <<"r", "e", "a", "d", " ", "t", "i", "m", "e", "o", "u", "t">>,
            <<"c", "o", "n", "n", "e", "c", "t", "i", "o", "n", " ", "t", "i", "m", "e", "o", "u", "t">> >> >>,
       <<"auth_error",
         << <<"i", "n", "v", "a", "l", "i", "d", "_", "a", "p", "i", "_", "k", "e", "y">>,
            <<"u", "n", "a", "u", "t", "h", "o", "r", "i", "z", "e", "d">>,
            <<"4", "0", "1">>,
            <<"4", "0", "3", " ", "f", "o", "r", "b", "i", "d", "d", "e", "n">>,
            <<"a", "u", "t", "h", "e", "n", "t", "i", "c", "a", "t", "i", "o", "n", " ", "f", "a", "i", "l", "e", "d">> >> >>,
       <<"invalid_request",
         << <<"i", "n", "v", "a", "l", "i", "d", "_", "r", "e", "q", "u", "e", "s", "t", "_", "e", "r", "r", "o", "r">>,
            <<"b", "a", "d", "_", "r", "e", "q", "u", "e", "s", "t">>,
            <<"4", "0", "0">>,
            <<"m", "a", "l", "f", "o", "r", "m", "e", "d", " ", "r", "e", "q", "u", "e", "s", "t">>,
            <<"i", "n", "v", "a", "l", "i", "d", " ", "p", "a", "r", "a", "m", "e", "t", "e", "r">> >> >> >>

claude_patterns ==
    <<<<"rate_limit",
         << <<"r", "a", "t", "e", "_", "l", "i", "m", "i", "t", "_", "e", "r", "r", "o", "r">>,
            <<"r", "a", "t", "e", " ", "l", "i", "m", "i", "t", " ", "e", "x", "c", "e", "e", "d", "e", "d">>,
            <<"t", "o", "o", "_", "m", "a", "n", "y", "_", "r", "e", "q", "u", "e", "s", "t", "s">>,
            <<"4", "2", "9">>,
            <<"r", "e", "q", "u", "e", "s", "t", "s", " ", "p", "e", "r", " ", "m", "i", "n", "u", "t", "e", " ", "e", "x", "c", "e", "e", "d", "e", "d">> >> >>,
       <<"quota_exceeded",
         << <<"c", "r", "e", "d", "i", "t", "_", "b", "a", "l", "a", "n", "c", "e", "_", "t", "o", "o", "_", "l", "o", "w">>,
            <<"u", "s", "a", "g", "e", "_", "l", "i", "m", "i", "t", "_", "e", "x", "c", "e", "e", "d", "e", "d">>,
            <<"m", "o", "n", "t", "h", "l", "y", " ", "l", "i", "m", "i", "t", " ", "e", "x", "c", "e", "e", "d", "e", "d">>,
            <<"i", "n", "s", "u", "f", "f", "i", "c", "i", "e", "n", "t", " ", "c", "r", "e", "d", "i", "t", "s">> >> >>,
       <<"network_error",
         << <<"c", "o", "n", "n", "e", "c", "t", "i", "o", "n", "_", "e", "r", "r", "o", "r">>,
            <<"n", "e", "t", "w", "o", "r", "k", "_", "e", "r", "r", "o", "r">>,
            <<"c", "o", "n", "n", "e", "c", "t", "i", "o", "n", " ", "t", "i", "m", "e", "o", "u", "t">>,
            <<"c", "o", "n", "n", "e", "c", "t", "i", "o", "n", " ", "f", "a", "i", "l", "e", "d">> >> >>,
       <<"service_error",
         << <<"o", "v", "e", "r", "l", "o", "a", "d", "e", "d", "_", "e", "r", "r", "o", "r">>,
            <<"a", "p", "i", "_", "e", "r", "r", "o", "r">>,
            <<"i", "n", "t", "e", "r", "n", "a", "l", "_", "s", "e", "r", "v", "e", "r", "_", "e", "r", "r", "o", "r">>,
            <<"s", "e", "r", "v", "i", "c", "e", "_", "u", "n", "a", "v", "a", "i", "l", "a", "b", "l", "e">>,
            <<"5", "0", "2">>,
            <<"5", "0", "3">> >> >>,
       <<"timeout_error",
         << <<"t", "i", "m", "e", "o", "u", "t", "_", "e", "r", "r", "o", "r">>,
            <<"r", "e", "q", "u", "e", "s", "t", "_", "t", "i", "m", "e", "o", "u", "t">>,
            <<"p", "r", "o", "c", "e", "s", "s", "i", "n", "g", "_", "t", "i", "m", "e", "o", "u", "t">> >> >>,
       <<"auth_error",
         << <<"a", "u", "t", "h", "e", "n", "t", "i", "c", "a", "t", "i", "o", "n", "_", "e", "r", "r", "o", "r">>,
            <<"i", "n", "v", "a", "l", "i", "d", "_", "a", "p", "i", "_", "k", "e", "y">>,
            <<"u", "n", "a", "u", "t", "h", "o", "r", "i", "z", "e", "d">>,
            <<"4", "0", "1">>,
            <<"p", "e", "r", "m", "i", "s", "s", "i", "o", "n", "_", "e", "r", "r", "o", "r">> >> >>,
       <<"invalid_request",
         << <<"i", "n", "v", "a", "l", "i", "d", "_", "r", "e", "q", "u", "e", "s", "t", "_", "e", "r", "r", "o", "r">>,
            <<"v", "a", "l", "i", "d", "a", "t", "i", "o", "n", "_", "e", "r", "r", "o", "r">>,
            <<"b", "a", "d", "_", "r", "e", "q", "u", "e", "s", "t">>,
            <<"4", "0", "0">> >> >> >>

gemini_patterns ==
    <<<<"rate_limit",
         << <<"R", "A", "T", "E", "_", "L", "I", "M", "I", "T", "_", "E", "X", "C", "E", "E", "D", "E", "D">>,
            <<"q", "u", "o", "t", "a", " ", "e", "x", "c", "e", "e", "d", "e", "d">>,
            <<"4", "2", "9">>,
            <<"t", "o", "o", " ", "m", "a", "n", "y", " ", "r", "e", "q", "u", "e", "s", "t", "s">>,
            <<"r", "e", "q", "u", "e", "s", "t", "s", " ", "p", "e", "r", " ", "m", "i", "n", "u", "t", "e">> >> >>,
       <<"quota_exceeded",
         << <<"Q", "U", "O", "T", "A", "_", "E", "X", "C", "E", "E", "D", "E", "D">>,
            <<"q", "u", "o", "t", "a", "_", "e", "x", "c", "e", "e", "d", "e", "d">>,
            <<"u", "s", "a", "g", "e", " ", "l", "i", "m", "i", "t", " ", "e", "x", "c", "e", "e", "d", "e", "d">>,
            <<"d", "a", "i", "l", "y", " ", "l", "i", "m", "i", "t", " ", "e", "x", "c", "e", "e", "d", "e", "d">> >> >>,
       <<"network_error",
         << <<"U", "N", "A", "V", "A", "I", "L", "A", "B", "L", "E">>,
            <<"c", "o", "n", "n", "e", "c", "t", "i", "o", "n", " ", "e", "r", "r", "o", "r">>,
            <<"n", "e", "t", "w", "o", "r", "k", " ", "e", "r", "r", "o", "r">>,
            <<"c", "o", "n", "n", "e", "c", "t", "i", "o", "n", " ", "t", "i", "m", "e", "o", "u", "t">> >> >>,
       <<"service_error",
         << <<"I", "N", "T", "E", "R", "N", "A", "L">>,
            <<"i", "n", "t", "e", "r", "n", "a", "l", " ", "e", "r", "r", "o", "r">>,
            <<"s", "e", "r", "v", "i", "c", "e", " ", "u", "n", "a", "v", "a", "i", "l", "a", "b", "l", "e">>,
            <<"5", "0", "2">>,
            <<"5", "0", "3">> >> >>,
       <<"timeout_error",
         << <<"D", "E", "A", "D", "L", "I", "N", "E", "_", "E", "X", "C", "E", "E", "D", "E", "D">>,
            <<"t", "i", "m", "e", "o", "u", "t">>,
            <<"r", "e", "q", "u", "e", "s", "t", " ", "t", "i", "m", "e", "o", "u", "t">> >> >>,
       <<"auth_error",
         << <<"U", "N", "A", "U", "T", "H", "E", "N", "T", "I", "C", "A", "T", "E", "D">>,
            <<"P", "E", "R", "M", "I", "S", "S", "I", "O", "N", "_", "D", "E", "N", "I", "E", "D">>,
            <<"i", "n", "v", "a", "l", "i", "d", " ", "a", "p", "i", " ", "k", "e", "y">>,
            <<"4", "0", "1">>,
            <<"4", "0", "3">> >> >>,
       <<"invalid_request",
         << <<"I", "N", "V", "A", "L", "I", "D", "_", "A", "R", "G", "U", "M", "E", "N", "T">>,
            <<"i", "n", "v", "a", "l", "i", "d", " ", "r", "e", "q", "u", "e", "s", "t">>,
            <<"b", "a", "d", " ", "r", "e", "q", "u", "e", "s", "t">>,
            <<"4", "0", "0">> >> >> >>

\* _get_generic_patterns()
generic_patterns ==
    <<<<"rate_limit",
         << <<"r", "a", "t", "e", ".", "?", "l", "i", "m", "i", "t">>,
            <<"t", "o", "o", ".", "?", "m", "a", "n", "y", ".", "?", "r", "e", "q", "u", "e", "s", "t", "s">>,
            <<"4", "2", "9">>,
            <<"t", "h", "r", "o", "t", "t", "l", "e">> >> >>,
       <<"quota_exceeded",
         << <<"q", "u", "o", "t", "a">>,
            <<"l", "i", "m", "i", "t", ".", "?", "e", "x", "c", "e", "e", "d", "e", "d">>,
            <<"u", "s", "a", "g", "e", ".", "?", "l", "i", "m", "i", "t">>,
            <<"c", "r", "e", "d", "i", "t">> >> >>,
       <<"network_error",
         << <<"c", "o", "n", "n", "e", "c", "t", "i", "o", "n">>,
            <<"n", "e", "t", "w", "o", "r", "k">>,
            <<"d", "n", "s">>,
            <<"s", "o", "c", "k", "e", "t">> >> >>,
       <<"service_error",
         << <<"5", "0", "[", "0", "-", "9", "]">>,
            <<"s", "e", "r", "v", "i", "c", "e", ".", "?", "u", "n", "a", "v", "a", "i", "l", "a", "b", "l", "e">>,
            <<"i", "n", "t", "e", "r", "n", "a", "l", ".", "?", "s", "e", "r", "v", "e", "r">>,
            <<"b", "a", "d", ".", "?", "g", "a", "t", "e", "w", "a", "y">> >> >>,
       <<"timeout_error",
         << <<"t", "i", "m", "e", "o", "u", "t">>,
            <<"d", "e", "a", "d", "l", "i", "n", "e">> >> >>,
       <<"auth_error",
         << <<"4", "0", "[", "1", "3", "]">>,
            <<"u", "n", "a", "u", "t", "h", "o", "r", "i", "z", "e", "d">>,
            <<"f", "o", "r", "b", "i", "d", "d", "e", "n">>,
            <<"a", "u", "t", "h", "e", "n", "t", "i", "c", "a", "t", "i", "o", "n">>,
            <<"a", "p", "i", ".", "?", "k", "e", "y">> >> >>,
       <<"invalid_request",
         << <<"4", "0", "0">>,
            <<"b", "a", "d", ".", "?", "r", "e", "q", "u", "e", "s", "t">>,
            <<"i", "n", "v", "a", "l", "i", "d">>,
            <<"m", "a", "l", "f", "o", "r", "m", "e", "d">> >> >> >>

\* the table of the provider
select_patterns(provider) ==
    IF contains(provider, <<"o", "p", "e", "n", "a", "i">>) \/ contains(provider, <<"g", "p", "t">>)
    THEN openai_patterns
    ELSE IF contains(provider, <<"c", "l", "a", "u", "d", "e">>) \/ contains(provider, <<"a", "n", "t", "h", "r", "o", "p", "i", "c">>)
    THEN claude_patterns
    ELSE IF contains(provider, <<"g", "e", "m", "i", "n", "i">>) \/ contains(provider, <<"g", "o", "o", "g", "l", "e">>)
    THEN gemini_patterns
    ELSE generic_patterns

RECURSIVE last_match(_, _, _)
last_match(patterns, error_message, found) ==
    IF patterns = <<>> THEN found
    ELSE last_match(Tail(patterns), error_message,
                    IF \E k \in DOMAIN patterns[1][2] : re_search(patterns[1][2][k], error_message)
                    THEN patterns[1][1] ELSE found)

\* the loop over patterns.items(): the first category with a pattern that
\* is found in the message, unknown_error when the loop ends
RECURSIVE first_match(_, _, _)
first_match(patterns, error_message, found) ==
    IF patterns = <<>> THEN found
    ELSE IF \E k \in DOMAIN patterns[1][2] : re_search(patterns[1][2][k], error_message)
    THEN patterns[1][1]
    ELSE first_match(Tail(patterns), error_message, found)

match_error_patterns(error_message, provider) ==
    first_match(select_patterns(provider), error_message, "unknown_error")

retryable_errors ==
    {"rate_limit", "quota_exceeded", "network_error", "service_error", "timeout_error"}

suggested_delays_unknown_zero ==
    [rate_limit |-> 300, quota_exceeded |-> 1800, network_error |-> 60,
     service_error |-> 300, timeout_error |-> 120, auth_error |-> 0,
     invalid_request |-> 0, content_error |-> 0, unknown_error |-> 0]

suggested_delays ==
    [rate_limit |-> 300, quota_exceeded |-> 1800, network_error |-> 60,
     service_error |-> 300, timeout_error |-> 120, auth_error |-> 0,
     invalid_request |-> 0, content_error |-> 0, unknown_error |-> 300]

\* the first place from i on whose character is not in the set
RECURSIVE skip_while(_, _, _)
skip_while(text, i, chars) ==
    IF i <= Len(text) /\ text[i] \in chars THEN skip_while(text, i + 1, chars) ELSE i

literal_at(text, i, part) ==
    i + Len(part) - 1 <= Len(text) /\ SubSeq(text, i, i + Len(part) - 1) = part

\* int() of the digits of text from i up to j - 1
RECURSIVE int_of(_, _, _)
int_of(text, i, j) ==
    IF i >= j THEN 0 ELSE 10 * int_of(text, i, j - 1) + DigitValue(text[j - 1])

DigitChars == {Digits[k] : k \in DOMAIN Digits}

\* _extract_status_code: the first match of \b([4-5]\d{2})\b
extract_status_code(error_message) ==
    LET starts == {i \in 1..(Len(error_message) - 2) :
                     /\ error_message[i] \in {"4", "5"}
                     /\ IsDigit(error_message[i + 1]) /\ IsDigit(error_message[i + 2])
                     /\ (i = 1 \/ ~IsWordChar(error_message[i - 1]))
                     /\ (i + 3 > Len(error_message) \/ ~IsWordChar(error_message[i + 3]))}
    IN  IF starts = {} THEN {}
        ELSE LET i == CHOOSE k \in starts : \A j \in starts : k <= j
             IN  {<<"status_code", JNum(int_of(error_message, i, i + 3))>>}

Periods == <<[name |-> "minute", text |-> <<"m", "i", "n", "u", "t", "e">>],
             [name |-> "hour", text |-> <<"h", "o", "u", "r">>],
             [name |-> "day", text |-> <<"d", "a", "y">>]>>

\* where (\d+)\s*requests?\s*per\s*(minute|hour|day) matches from i on: the
\* place after the digits and the place of the period
requests_match(text, i) ==
    LET digits_end == skip_while(text, i, DigitChars)
        word == skip_while(text, digits_end, {" "})
        plural == IF literal_at(text, word + 7, <<"s">>) THEN word + 8 ELSE word + 7
        per == skip_while(text, plural, {" "})
        period == skip_while(text, per + 3, {" "})
    IN  [ok |-> /\ digits_end > i
                /\ literal_at(text, word, <<"r", "e", "q", "u", "e", "s", "t">>)
                /\ literal_at(text, per, <<"p", "e", "r">>)
                /\ \E k \in DOMAIN Periods : literal_at(text, period, Periods[k].text),
         digits_end |-> digits_end, period |-> period]

\* where retry.?after[:\s]*(\d+) matches from i on: the places of the digits
retry_after_match(text, i) ==
    LET after == IF literal_at(text, i + 5, <<"a", "f", "t", "e", "r">>) THEN i + 5 ELSE i + 6
        digits == skip_while(text, after + 5, {":", " "})
        digits_end == skip_while(text, digits, DigitChars)
    IN  [ok |-> /\ literal_at(text, i, <<"r", "e", "t", "r", "y">>)
                /\ literal_at(text, after, <<"a", "f", "t", "e", "r">>)
                /\ digits_end > digits,
         digits |-> digits, digits_end |-> digits_end]

\* _extract_rate_limit_info
extract_rate_limit_info(error_message) ==
    LET places == 1..Len(error_message)
        requests == {i \in places : requests_match(error_message, i).ok}
        retries == {i \in places : retry_after_match(error_message, i).ok}
        limit == IF requests = {} THEN {}
                 ELSE LET i == CHOOSE k \in requests : \A j \in requests : k <= j
                          m == requests_match(error_message, i)
                          period == CHOOSE k \in DOMAIN Periods :
                                        /\ literal_at(error_message, m.period, Periods[k].text)
                                        /\ \A j \in 1..(k - 1) :
                                              ~literal_at(error_message, m.period, Periods[j].text)
                      IN  {<<"limit_requests", JNum(int_of(error_message, i, m.digits_end))>>,
                           <<"limit_period", JStr(Periods[period].name)>>}
        retry == IF retries = {} THEN {}
                 ELSE LET i == CHOOSE k \in retries : \A j \in retries : k <= j
                          m == retry_after_match(error_message, i)
                      IN  {<<"retry_after", JNum(int_of(error_message, m.digits, m.digits_end))>>}
    IN  limit \cup retry

\* hasattr and getattr on a value whose attributes are a set of pairs
hasattr(attrs, name) == \E a \in attrs : a[1] = name
getattr(attrs, name) == (CHOOSE a \in attrs : a[1] = name)[2]

\* dict.update
dict_update(d, e) == {x \in d : ~\E y \in e : y[1] = x[1]} \cup e

\* _extract_provider_specific_details: `in headers` raises TypeError when
\* headers is no container
extract_provider_specific_details(error, provider) ==
    IF contains(provider, <<"o", "p", "e", "n", "a", "i">>)
    THEN IF ~hasattr(error.attrs, "response") THEN Ok({})
         ELSE LET response == getattr(error.attrs, "response")
                  status == IF hasattr(response, "status_code")
                            THEN {<<"openai_status", getattr(response, "status_code")>>}
                            ELSE {}
              IN  IF ~hasattr(response, "headers") THEN Ok(status)
                  ELSE LET headers == getattr(response, "headers")
                       IN  IF headers.t # "dict" THEN Exc("TypeError")
                           ELSE Ok(status \cup
                                   {<<"remaining_requests", h[2]>> :
                                       h \in {x \in headers.v : x[1] = "x-ratelimit-remaining-requests"}} \cup
                                   {<<"reset_requests", h[2]>> :
                                       h \in {x \in headers.v : x[1] = "x-ratelimit-reset-requests"}})
    ELSE IF contains(provider, <<"c", "l", "a", "u", "d", "e">>) \/ contains(provider, <<"a", "n", "t", "h", "r", "o", "p", "i", "c">>)
    THEN Ok({<<"claude_status", getattr(error.attrs, "status_code")>> : x \in {a \in error.attrs : a[1] = "status_code"}}
            \cup {<<"claude_error_type", getattr(error.attrs, "error_type")>> : x \in {a \in error.attrs : a[1] = "error_type"}})
    ELSE IF contains(provider, <<"g", "e", "m", "i", "n", "i">>)
    THEN Ok({<<"gemini_code", getattr(error.attrs, "code")>> : x \in {a \in error.attrs : a[1] = "code"}}
            \cup {<<"gemini_details", getattr(error.attrs, "details")>> : x \in {a \in error.attrs : a[1] = "details"}})
    ELSE Ok({})

\* _extract_error_details
extract_error_details(error, error_message, provider, t) ==
    LET details == dict_update(dict_update({<<"error_class", JStr(error.class)>>,
                                            <<"timestamp", isoformat(t)>>},
                                           extract_status_code(error_message)),
                               extract_rate_limit_info(error_message))
        provider_details == extract_provider_specific_details(error, provider)
    IN  IF provider_details.ok THEN Ok(dict_update(details, provider_details.v))
        ELSE provider_details

FailureReason(error_type, provider, message, is_retryable, suggested_delay, details) ==
    [error_type |-> error_type, provider |-> provider, original_message |-> message,
     is_retryable |-> is_retryable, suggested_delay |-> suggested_delay, details |-> details]

\* classify_error(error, provider) at time t
classify_error(error, provider, t) ==
    LET error_message == lower(error.message)
        provider_lower == lower(provider)
        error_type == match_error_patterns(error_message, provider_lower)
        is_retryable == error_type \in retryable_errors
        suggested_delay == suggested_delays[error_type]
        details == extract_error_details(error, error_message, provider_lower, t)
    IN  IF details.ok
        THEN Ok(FailureReason(error_type, provider, error.message, is_retryable,
                              suggested_delay, details.v))
        ELSE details

\* the messages of the errors
MessageSamples ==
    { <<"R", "a", "t", "e", " ", "l", "i", "m", "i", "t", " ", "e", "x", "c", "e", "e", "d", "e", "d", " ", "d", "u", "e", " ", "t", "o", " ", "q", "u", "o", "t", "a", " ", "u", "s", "a", "g", "e">>,
      <<"C", "o", "n", "n", "e", "c", "t", "i", "o", "n", " ", "t", "i", "m", "e", "o", "u", "t">>,
      <<"4", "0", "1", " ", "U", "n", "a", "u", "t", "h", "o", "r", "i", "z", "e", "d", ":", " ", "I", "n", "v", "a", "l", "i", "d", " ", "A", "P", "I", " ", "k", "e", "y">>,
      <<"4", "0", "0", " ", "B", "a", "d", " ", "R", "e", "q", "u", "e", "s", "t", ":", " ", "I", "n", "v", "a", "l", "i", "d", " ", "p", "a", "r", "a", "m", "e", "t", "e", "r", " ", "'", "m", "o", "d", "e", "l", "'">>,
      <<"S", "o", "m", "e", "t", "h", "i", "n", "g", " ", "w", "e", "n", "t", " ", "w", "r", "o", "n", "g", " ", "w", "i", "t", "h", " ", "t", "h", "e", " ", "A", "I", " ", "p", "r", "o", "c", "e", "s", "s", "i", "n", "g">>,
      <<"Q", "u", "o", "t", "a", " ", "e", "x", "c", "e", "e", "d", "e", "d">>,
      <<"5", "0", "3", " ", "S", "e", "r", "v", "i", "c", "e", " ", "U", "n", "a", "v", "a", "i", "l", "a", "b", "l", "e", ",", " ", "r", "e", "t", "r", "y", " ", "a", "f", "t", "e", "r", " ", "3", "0">>,
      <<"R", "e", "q", "u", "e", "s", "t", " ", "t", "i", "m", "e", "o", "u", "t", " ", "a", "f", "t", "e", "r", " ", "3", "0", " ", "s", "e", "c", "o", "n", "d", "s">>,
      <<"4", "2", "9", " ", "T", "o", "o", " ", "M", "a", "n", "y", " ", "R", "e", "q", "u", "e", "s", "t", "s", ":", " ", "6", "0", " ", "r", "e", "q", "u", "e", "s", "t", "s", " ", "p", "e", "r", " ", "m", "i", "n", "u", "t", "e">>,
      <<"R", "A", "T", "E", " ", "L", "I", "M", "I", "T", " ", "E", "X", "C", "E", "E", "D", "E", "D">>,
      <<>>,
      <<"E", "r", "r", "o", "r", " ", "c", "o", "d", "e", ":", " ", "5", "0", "0", " ", "-", " ", "u", "n", "a", "u", "t", "h", "o", "r", "i", "z", "e", "d">> }

ProviderSamples ==
    { <<"o", "p", "e", "n", "a", "i">>,
      <<"c", "l", "a", "u", "d", "e">>,
      <<"g", "e", "m", "i", "n", "i">>,
      <<"u", "n", "k", "n", "o", "w", "n", "_", "p", "r", "o", "v", "i", "d", "e", "r">>,
      <<"G", "P", "T", "-", "4">> }

\* the attributes of the error value: none, a response with a status and
\* rate-limit headers, a response whose headers are None, a status_code
\* and an error_type, a code and details
AttributeSamples ==
    { {},
      {<<"response", {<<"status_code", JNum(429)>>,
                      <<"headers", JDict({<<"x-ratelimit-remaining-requests", JStr("0")>>,
                                          <<"x-ratelimit-reset-requests", JStr("60s")>>})>>}>>},
      {<<"response", {<<"status_code", JNum(500)>>, <<"headers", [t |-> "None"]>>}>>},
      {<<"status_code", JNum(529)>>, <<"error_type", JStr("overloaded_error")>>},
      {<<"code", JNum(429)>>, <<"details", JStr("RESOURCE_EXHAUSTED")>>} }

\* classifier.classify_error(error, provider)
ClassifyError ==
    /\ classified.op = "none"
    /\ \E message \in MessageSamples, provider \in ProviderSamples, attrs \in AttributeSamples :
          LET error == [class |-> "Exception", message |-> message, attrs |-> attrs]
          IN  classified' = [op |-> "classify_error", error |-> error, provider |-> provider,
                             result |-> classify_error(error, provider, now)]
    /\ UNCHANGED <<now, qvars, qcall, mvars, svars, rvars, roundtrip, lvars, cvars, pipeline, built, objects>>

NextClassify == ClassifyError

SpecClassify == Init /\ [][NextClassify]_vars

(* ------------------------------------------------------------------ *)
(* NewsItem and OpenAISummarizer.summarize_article                       *)
(* ------------------------------------------------------------------ *)
\* a confidence is written in hundredths: 85 is 0.85
Null == [t |-> "null"]

\* a text of n characters, with "..." appended when dots is TRUE
Text(n, dots) == [chars |-> n, dots |-> dots]
TextLen(text) == text.chars + (IF text.dots THEN 3 ELSE 0)

post_init_unchecked(item) == Ok(item)

\* NewsItem.__post_init__: the comparison raises TypeError when
\* ai_confidence is no number, and ValueError is raised outside 0.0..1.0
post_init(item) ==
    IF item.ai_confidence.t # "num" THEN Exc("TypeError")
    ELSE IF ~(0 <= item.ai_confidence.v /\ item.ai_confidence.v <= 100) THEN Exc("ValueError")
    ELSE Ok(item)

\* what the chat completion of the backend can be: an exception, a text
\* that is no JSON, and a JSON object with or without summary, confidence
\* and translated_title
SummaryLengths == {0, 1, 199, 200, 201, 250}
ConfidenceSamples == {JNum(c) : c \in {-10, 0, 30, 85, 100, 150}} \cup {Null}
BackendResponses ==
    {[kind |-> "raises"], [kind |-> "no JSON"], [kind |-> "JSON", fields |-> {}]}
    \cup {[kind |-> "JSON", fields |-> {<<"summary", Text(n, FALSE)>>} \cup c \cup t] :
              n \in SummaryLengths,
              c \in {{}} \cup {{<<"confidence", x>>} : x \in ConfidenceSamples},
              t \in {{}, {<<"translated_title", "ja">>}}}

\* _process_article_all_in_one: the parsed object with its summary cut to
\* 200 characters, the fallback object when the text is no JSON, None
\* without a summary and after any other exception
process_article_all_in_one(article, response) ==
    IF response.kind = "raises" THEN NoValue
    ELSE IF response.kind = "no JSON"
    THEN SomeValue({<<"summary", Text(22 + article.title_len, FALSE)>>, <<"confidence", JNum(30)>>})
    ELSE IF ~hasattr(response.fields, "summary") THEN NoValue
    ELSE LET summary == getattr(response.fields, "summary")
         IN  IF TextLen(summary) > 200
             THEN SomeValue(dict_update(response.fields, {<<"summary", Text(197, TRUE)>>}))
             ELSE SomeValue(response.fields)

\* OpenAISummarizer.summarize_article: None without a result, the NewsItem
\* built from it, AIProcessingError after any exception
openai_summarize_article(article, response) ==
    LET result == process_article_all_in_one(article, response)
    IN  IF result = NoValue THEN Ok(NoValue)
        ELSE LET news_item ==
                     post_init([id |-> article.id,
                                title |-> IF hasattr(result.value, "translated_title")
                                          THEN getattr(result.value, "translated_title")
                                          ELSE "original",
                                summary |-> getattr(result.value, "summary"),
                                ai_confidence |-> IF hasattr(result.value, "confidence")
                                                  THEN getattr(result.value, "confidence")
                                                  ELSE JNum(85)])
             IN  IF news_item.ok THEN Ok(SomeValue(news_item.v))
                 ELSE Exc("AIProcessingError")

\* the lengths of the titles of the articles: normalize_article strips a
\* title and never shortens it
TitleLengths == {10, 178, 179}

\* summarizer.summarize_article(article)
OpenAISummarizeArticle ==
    /\ built.op = "none"
    /\ \E id \in Ids, title_len \in TitleLengths, response \in BackendResponses :
          LET article == [id |-> id, title_len |-> title_len]
          IN  built' = [op |-> "summarize_article", article |-> article, response |-> response,
                        result |-> openai_summarize_article(article, response)]
    /\ UNCHANGED <<now, qvars, qcall, mvars, svars, rvars, roundtrip, lvars, cvars, classified, pipeline, objects>>

NextOpenAI == OpenAISummarizeArticle

SpecOpenAI == Init /\ [][NextOpenAI]_vars

(* ------------------------------------------------------------------ *)
(* RawNewsItem identity                                                  *)
(* ------------------------------------------------------------------ *)
Uuids == 1..MaxArticles

\* str(uuid.uuid4()): a random value; that two calls give one value is
\* left out
uuid4(used) == Uuids \ used

\* RawNewsItem(title, url, ...): the dataclass has no field id, so
\* __post_init__ finds no attribute id and sets it to a new uuid4
NewRawNewsItem ==
    /\ Len(objects) < MaxArticles
    /\ \E url \in Urls, title \in TitleSamples, id \in uuid4({o.id : o \in Range(objects)}) :
          objects' = Append(objects, RawNewsItem(id, url, title))
    /\ UNCHANGED <<now, qvars, qcall, mvars, svars, rvars, roundtrip, lvars, cvars, classified, pipeline, built>>

NextIdentity == NewRawNewsItem

SpecIdentity == Init /\ [][NextIdentity]_vars

(* ------------------------------------------------------------------ *)
(* ProcessingPipeline.run                                                *)
(* ------------------------------------------------------------------ *)
\* how the tasks of one collect_all can have ended: each source raised or
\* returned one of its feeds
EndedTasks ==
    [Sources -> {[pc |-> "raised"]}
                \cup UNION {{[pc |-> "returned", result |-> feed] : feed \in FeedSamples(src)}
                              : src \in Sources}]

\* yesterday's items of load_existing_data as raw items, None without them
FallbackSamples == {NoValue, SomeValue(<<OwnArticle(1)>>)}

\* collect_articles: the list of collect_all, [] when it is empty; the
\* fallback data when collect_all raises
collect_articles(collect_all, fallback) ==
    IF collect_all.kind = "returned"
    THEN (IF collect_all.ret = <<>> THEN SomeValue(<<>>) ELSE SomeValue(collect_all.ret))
    ELSE fallback

\* process_articles: the items that the batches returned (a batch that
\* raises is skipped)
process_articles(raw_articles, done) ==
    SelectSeq(raw_articles, LAMBDA a : a.id \in done)

\* generate_daily_summary: None without items and when the analysis raises
generate_daily_summary(articles, raises) ==
    IF articles = <<>> \/ raises THEN NoValue
    ELSE SomeValue(DailySummary("provider", Len(articles)))

\* save_data: True unless a DataManager call raises
save_data_result(raises) == ~raises

\* the end of run: 0 when items were processed or the save succeeded
exit_code(processed_articles, save_success) ==
    IF processed_articles # <<>> \/ save_success THEN 0 ELSE 1

PipelineDone(code) == [pipeline EXCEPT !.pc = "done", !.exit_code = code]

\* a ProcessingPipeline is created and run is called
NewPipeline ==
    /\ pipeline.pc = "start"
    /\ pipeline' = [pc |-> "initialize", collect_all |-> NoValue, raw_articles |-> NoValue,
                    processed_articles |-> <<>>, daily_summary |-> NoValue,
                    save_success |-> FALSE, exit_code |-> -1]
    /\ UNCHANGED <<now, qvars, qcall, mvars, svars, rvars, roundtrip, lvars, cvars, classified, built, objects>>

\* initialize_components returns True, or False after an exception
InitializeComponents ==
    /\ pipeline.pc = "initialize"
    /\ \E ok \in BOOLEAN :
          pipeline' = IF ok THEN [pipeline EXCEPT !.pc = "collect"] ELSE PipelineDone(1)
    /\ UNCHANGED <<now, qvars, qcall, mvars, svars, rvars, roundtrip, lvars, cvars, classified, built, objects>>

\* collect_articles; run returns 1 when it returns None
CollectArticles ==
    /\ pipeline.pc = "collect"
    /\ \E ts \in EndedTasks, raises \in BOOLEAN, fallback \in FallbackSamples :
          LET collect_all ==
                  IF raises THEN [kind |-> "raised"]
                  ELSE [kind |-> "returned",
                        successful_sources |-> {src \in Sources : ts[src].pc = "returned"},
                        ret |-> deduplicate(all_articles(ts, 1))]
              raw_articles == collect_articles(collect_all, fallback)
          IN  pipeline' =
                  IF raw_articles = NoValue
                  THEN [PipelineDone(1) EXCEPT !.collect_all = collect_all]
                  ELSE [pipeline EXCEPT !.pc = "process", !.collect_all = collect_all,
                                        !.raw_articles = raw_articles]
    /\ UNCHANGED <<now, qvars, qcall, mvars, svars, rvars, roundtrip, lvars, cvars, classified, built, objects>>

\* process_articles
ProcessArticles ==
    /\ pipeline.pc = "process"
    /\ \E done \in SUBSET {a.id : a \in Range(pipeline.raw_articles.value)} :
          pipeline' = [pipeline EXCEPT !.pc = "summary",
                          !.processed_articles = process_articles(pipeline.raw_articles.value, done)]
    /\ UNCHANGED <<now, qvars, qcall, mvars, svars, rvars, roundtrip, lvars, cvars, classified, built, objects>>

\* generate_daily_summary
GenerateDailySummary ==
    /\ pipeline.pc = "summary"
    /\ \E raises \in BOOLEAN :
          pipeline' = [pipeline EXCEPT !.pc = "save",
                          !.daily_summary = generate_daily_summary(pipeline.processed_articles, raises)]
    /\ UNCHANGED <<now, qvars, qcall, mvars, svars, rvars, roundtrip, lvars, cvars, classified, built, objects>>

\* save_data, log_processing_results and the return of run
SaveData ==
    /\ pipeline.pc = "save"
    /\ \E raises \in BOOLEAN :
          LET save_success == save_data_result(raises)
          IN  pipeline' = [PipelineDone(exit_code(pipeline.processed_articles, save_success))
                              EXCEPT !.save_success = save_success]
    /\ UNCHANGED <<now, qvars, qcall, mvars, svars, rvars, roundtrip, lvars, cvars, classified, built, objects>>

\* an exception that no step caught: run returns 1
UnexpectedError ==
    /\ pipeline.pc \in {"initialize", "collect", "process", "summary", "save"}
    /\ pipeline' = PipelineDone(1)
    /\ UNCHANGED <<now, qvars, qcall, mvars, svars, rvars, roundtrip, lvars, cvars, classified, built, objects>>

NextPipeline ==
    \/ NewPipeline
    \/ InitializeComponents
    \/ CollectArticles
    \/ ProcessArticles
    \/ GenerateDailySummary
    \/ SaveData
    \/ UnexpectedError

SpecPipeline == Init /\ [][NextPipeline]_vars

(* ------------------------------------------------------------------ *)
(* ClaudeSummarizer / OpenAISummarizer: _process_article_with_retry     *)
(* ------------------------------------------------------------------ *)

RetryProviders == {"claude", "openai"}
MaxRetriesSamples == {0, 1, 2, 3}
RetryDelaySamples == {1, 2}

\* the fixed wait after a rate-limit error: 60 seconds in ClaudeSummarizer,
\* 30 in OpenAISummarizer
rate_limit_wait(provider) == IF provider = "claude" THEN 60 ELSE 30

backoff_wait_one_based(retry_delay, attempt) == retry_delay * 2 ^ (attempt + 1)

\* wait_time = self.retry_delay * (2 ** attempt), attempt counted from 0
backoff_wait(retry_delay, attempt) == retry_delay * 2 ^ attempt

Slept(attempt, seconds) == [attempt |-> attempt, seconds |-> seconds]

RetryUnchanged ==
    UNCHANGED <<now, qvars, qcall, mvars, svars, roundtrip, lvars, cvars, pvars, backups, procs>>

\* _process_article_with_retry(article) is called on a summarizer with
\* these settings; attempt is the variable of `for attempt in range(...)`
ProcessWithRetryBegin ==
    /\ attempts = [pc |-> "idle"]
    /\ \E provider \in RetryProviders, max_retries \in MaxRetriesSamples,
          retry_delay \in RetryDelaySamples :
          attempts' = [pc |-> "loop", provider |-> provider, max_retries |-> max_retries,
                       retry_delay |-> retry_delay, attempt |-> 0, calls |-> 0,
                       failures |-> <<>>, waits |-> <<>>]
    /\ RetryUnchanged

\* summarize_article returns (a NewsItem, or None): its value is returned
AttemptReturns ==
    /\ attempts.pc = "loop"
    /\ attempts.attempt < attempts.max_retries
    /\ \E value \in {"NewsItem", None} :
          attempts' = [attempts EXCEPT !.pc = "returned", !.calls = @ + 1] @@ [ret |-> value]
    /\ RetryUnchanged

\* summarize_article raises with a rate-limit message: the fixed wait, then
\* continue
AttemptRaisesRateLimit ==
    /\ attempts.pc = "loop"
    /\ attempts.attempt < attempts.max_retries
    /\ attempts' = [attempts EXCEPT
                       !.pc = "sleep", !.calls = @ + 1,
                       !.failures = Append(@, "rate_limit"),
                       !.waits = Append(@, Slept(attempts.attempt,
                                                 rate_limit_wait(attempts.provider)))]
    /\ RetryUnchanged

\* summarize_article raises another exception: None on the last attempt,
\* else the exponential backoff
AttemptRaises ==
    /\ attempts.pc = "loop"
    /\ attempts.attempt < attempts.max_retries
    /\ attempts' =
          IF attempts.attempt = attempts.max_retries - 1
          THEN [attempts EXCEPT !.pc = "returned", !.calls = @ + 1,
                                !.failures = Append(@, "error")] @@ [ret |-> None]
          ELSE [attempts EXCEPT
                   !.pc = "sleep", !.calls = @ + 1,
                   !.failures = Append(@, "error"),
                   !.waits = Append(@, Slept(attempts.attempt,
                                 backoff_wait(attempts.retry_delay, attempts.attempt)))]
    /\ RetryUnchanged

\* asyncio.sleep returns and the loop takes the next value of attempt
RetrySleepEnds ==
    /\ attempts.pc = "sleep"
    /\ attempts' = [attempts EXCEPT !.pc = "loop", !.attempt = @ + 1]
    /\ RetryUnchanged

\* range(max_retries) is exhausted: the return None after the loop
RetryExhausted ==
    /\ attempts.pc = "loop"
    /\ attempts.attempt >= attempts.max_retries
    /\ attempts' = [attempts EXCEPT !.pc = "returned"] @@ [ret |-> None]
    /\ RetryUnchanged

NextRetry ==
    \/ ProcessWithRetryBegin
    \/ AttemptReturns
    \/ AttemptRaisesRateLimit
    \/ AttemptRaises
    \/ RetrySleepEnds
    \/ RetryExhausted

SpecRetry == Init /\ [][NextRetry]_vars

(* ------------------------------------------------------------------ *)
(* Two processes that each load, change and save the queue file         *)
(* ------------------------------------------------------------------ *)

Procs == {"first", "second"}

Changed(q, added, removed, saves) ==
    [queue |-> q, added |-> added, removed |-> removed, saves |-> saves]

\* the change a process makes to the queue it loaded: add_item of a failed
\* article, remove_item of an entry it holds, or
\* RetryStorage.cleanup_old_entries, which saves only when removed_count > 0
QueueChanges(q, t) ==
    {Changed(Queue(add_item(q.items, from_raw_news_item(id, "processing failed", t, t)),
                   t, q.totals), {id}, {}, TRUE) : id \in Ids}
    \cup {Changed(Queue(remove_item(q.items, id)[1], t, q.totals), {}, {id}, TRUE) :
              id \in {i \in Ids : remove_item(q.items, i)[2]}}
    \cup {LET kept == cleanup_old_entries(q.items, DefaultCleanupDays, t)
          IN  Changed(Queue(kept, IF Len(kept) < Len(q.items) THEN t ELSE q.last_updated,
                            q.totals),
                      {}, {q.items[i].id : i \in 1..Len(q.items)}
                              \ {kept[i].id : i \in 1..Len(kept)},
                      Len(kept) < Len(q.items))}

ShareUnchanged ==
    UNCHANGED <<now, qvars, qcall, mvars, totals, temp, save, committed, loaded,
                roundtrip, lvars, cvars, pvars, attempts>>

\* load_queue() in process p (no lock is held once it has returned)
ProcLoad(p) ==
    /\ procs[p].pc = "idle"
    /\ LET r == load_queue(file, now) IN
       /\ r.result = "queue"
       /\ procs' = [procs EXCEPT ![p] = [pc |-> "loaded", queue |-> r.queue]]
       /\ backups' = IF r.backup THEN create_backup(backups, file, now) ELSE backups
    /\ file' = file
    /\ ShareUnchanged

\* process p changes the queue object it loaded
ProcChange(p) ==
    /\ procs[p].pc = "loaded"
    /\ \E c \in QueueChanges(procs[p].queue, now) :
          procs' = [procs EXCEPT ![p] = [pc |-> "changed", queue |-> c.queue,
                                         added |-> c.added, removed |-> c.removed,
                                         saves |-> c.saves]]
    /\ UNCHANGED <<file, backups>>
    /\ ShareUnchanged

\* save_queue(queue) in process p: its own temporary file is written and
\* renamed over the queue file, whatever the file holds by now
ProcSave(p) ==
    /\ procs[p].pc = "changed"
    /\ procs' = [procs EXCEPT ![p].pc = "saved"]
    /\ file' = IF procs[p].saves THEN JsonText(save_data(procs[p].queue, now)) ELSE file
    /\ UNCHANGED backups
    /\ ShareUnchanged

NextShare ==
    \/ TickQueue
    \/ \E p \in Procs : ProcLoad(p)
    \/ \E p \in Procs : ProcChange(p)
    \/ \E p \in Procs : ProcSave(p)

SpecShare == Init /\ [][NextShare]_vars

(* ------------------------------------------------------------------ *)
(* The whole program                                                    *)
(* ------------------------------------------------------------------ *)
Next ==
    \/ NextQueue
    \/ NextHealth
    \/ NextMulti
    \/ NextStorage
    \/ NextLoad
    \/ NextRoundTrip
    \/ NextLock
    \/ NextDedup
    \/ NextCollect
    \/ NextPipeline
    \/ NextClassify
    \/ NextOpenAI
    \/ NextIdentity
    \/ NextRetry
    \/ NextShare

Spec == Init /\ [][Next]_vars

(* ================================================================== *)
(* Properties                                                           *)
(* ================================================================== *)

IdSet(q) == {q[i].id : i \in 1..Len(q)}

NoDuplicateIds(q) == \A i, j \in 1..Len(q) : i # j => q[i].id # q[j].id

\* C1: after any sequence of add_item, remove_item and cleanup_old_entries
\* calls from the empty queue no two entries have the same id, and an
\* add_item of an id already present replaces that entry: the length grows
\* exactly when the id is new.
C1_AtMostOneEntryPerId ==
    /\ [](NoDuplicateIds(items))
    /\ [][(AddItem \/ EnqueueFailed) =>
            /\ Len(items') - Len(items) = Cardinality(IdSet(items')) - Cardinality(IdSet(items))
            /\ \A id \in IdSet(items) : FirstIndexOf(items', id) = FirstIndexOf(items, id)]_vars

\* an entry that was replaced in place: it is older in the list than the
\* entry behind it, and was created later
C1_Witness ==
    /\ Len(items) = 2
    /\ items[1].created_at > items[2].created_at

\* C2: each time an entry of the queue fails again and is re-enqueued
\* (from_raw_news_item, then add_item) its attempt count is one higher than
\* before.
C2_RetryCountIncrements ==
    [][\A id \in Ids, d \in RetryDelays :
          RetryFailedOf(id, d) =>
              Entry(items', id).retry_count = Entry(items, id).retry_count + 1]_vars

\* the articles the last operation dispatched to providers and got no
\* result for
ResultIds(c) ==
    IF c.result.kind = "item" THEN {c.result.value.id}
    ELSE IF c.result.kind = "list" THEN {c.result.value[i].id : i \in 1..Len(c.result.value)}
    ELSE {}

FailedArticles(c) ==
    IF c.op = "summarize_article" /\ c.result.kind = "None" /\ c.calls # <<>>
    THEN {c.article}
    ELSE IF c.op = "batch_process" /\ c.result.kind = "list" /\ c.calls # <<>>
    THEN Range(c.articles) \ ResultIds(c)
    ELSE {}

\* C3: when every provider fails for an item during summarize_article or
\* batch_process, the item ends up in the retry queue.
C3_FailedItemsReachRetryQueue ==
    \A a \in FailedArticles(call) : a \in IdSet(items)

\* C4: with all providers available, if the providers tried before the last
\* one fail and the last one succeeds, summarize_article returns the last
\* provider's result and each of the earlier ones has an error count one
\* higher than before the call.
C4_FailoverCountsErrors ==
    [][(/\ SummarizeArticle
        /\ call'.op = "summarize_article"
        /\ ~cache_hit(cache, call'.article)
        /\ \A p \in Providers : provider_status[p].available
        /\ Len(call'.calls) = Cardinality(Providers)
        /\ \A i \in 1..Len(call'.calls) :
              (call'.calls[i].outcome = "ok") <=> (i = Len(call'.calls)))
       =>
       (/\ call'.result =
              Returned("item", NewsItem(call'.article,
                                        call'.calls[Len(call'.calls)].provider))
        /\ \A i \in 1..(Len(call'.calls) - 1) :
              provider_status'[call'.calls[i].provider].error_count
                  = provider_status[call'.calls[i].provider].error_count + 1)]_vars

\* C5: for every provider health record, available is false exactly when
\* three or more errors have been recorded since the last success (or since
\* creation), error_count is that number, and so after a mark_success the
\* error count is 0 and available is true.
C5_AvailabilityFollowsErrors ==
    \A p \in Providers :
        /\ provider_status[p].error_count = errors_since_success[p]
        /\ provider_status[p].available <=> (errors_since_success[p] < ErrorThreshold)

\* a provider that was switched off by three errors has been marked
\* successful, while another one is switched off
C5_Witness ==
    /\ call.op = "mark_success"
    /\ call.before >= ErrorThreshold
    /\ provider_status[call.provider].available
    /\ \E q \in Providers : ~provider_status[q].available

InCooldown(st, t) == st.rate_limit_reset # NoReset /\ t < st.rate_limit_reset

\* C6: after a rate-limit failure a provider is not called while its
\* cooldown runs, and summarize_article and batch_process complete normally
\* in the meantime.
C6_CooldownRespected ==
    [][(SummarizeArticle \/ BatchProcess) =>
          /\ call'.result.kind # "TypeError"
          /\ \A i \in 1..Len(call'.calls) :
                ~InCooldown(provider_status[call'.calls[i].provider], now)]_vars

IsMultiCall(c) == c.op \in {"summarize_article", "batch_process", "analyze_daily_trends"}

\* C7: every provider call made by summarize_article, batch_process or
\* analyze_daily_trends marks the provider's health record by its outcome:
\* mark_success for a result, mark_error for a failure (raised, None, or no
\* result for a non-empty sub-batch).
C7_EveryOutcomeIsMarked ==
    IsMultiCall(call) =>
        \A i \in 1..Len(call.calls) :
            call.calls[i].marked = (IF call.calls[i].outcome = "ok" THEN "success" ELSE "error")

\* C8: an item processed by summarize_article or batch_process is stored in
\* the cache, so that a later call returns it without a provider call.
C8_ProcessedItemsAreCached ==
    call.op \in {"summarize_article", "batch_process"} =>
        \A a \in ResultIds(call) : cache_hit(cache, a)

\* C9: whatever step of save_queue the process has reached or crashed at,
\* the queue file is complete and load_queue returns from it the queue of
\* the last save_queue that replaced the file: the old state until the
\* replace, the new state from then on.
C9_FileHoldsCommittedState ==
    /\ file.t \in {"absent", "json"}
    /\ IF committed.t = "nothing"
       THEN file = Absent
       ELSE /\ load_queue(file, now).result = "queue"
            /\ load_queue(file, now).queue = committed.queue

\* a save of a changed queue was cut by a crash after the temporary file was
\* written, and load_queue returned the queue committed before
C9_Witness ==
    /\ "interrupted" \in DOMAIN save
    /\ committed.t = "queue"
    /\ committed.queue.items # <<>>
    /\ save.interrupted # committed.queue
    /\ "ret" \in DOMAIN loaded
    /\ loaded.ret.result = "queue"
    /\ loaded.ret.queue = committed.queue

\* C10: for a queue file that is no valid saved queue load_queue returns a
\* fresh empty RetryQueue (it neither raises nor returns None).
C10_MalformedFileLoadsEmptyQueue ==
    ("read" \in DOMAIN loaded /\ loaded.read \in MalformedContents) =>
        /\ loaded.ret.result = "queue"
        /\ loaded.ret.queue.items = <<>>
        /\ loaded.ret.queue.totals = ZeroTotals

\* the times of the model's clock
Times == {k * QueueTick : k \in 0..MaxQueueTicks}

\* C12: for every entry and every time, can_retry_now() is true exactly
\* when the time is at or after next_retry_time and retry_count <
\* max_retries; an entry with retry_count >= max_retries is expired, cannot
\* be retried at any time, and get_retry_candidates() returns exactly the
\* due, unexpired entries.
C12_CanRetryNowIffDueAndNotExpired ==
    /\ \A i \in 1..Len(items) : \A t \in Times :
          /\ can_retry_now(items[i], t) <=>
                (t >= items[i].next_retry_time /\ items[i].retry_count < items[i].max_retries)
          /\ items[i].retry_count >= items[i].max_retries =>
                (is_expired(items[i]) /\ ~can_retry_now(items[i], t))
    /\ qcall.op = "get_retry_candidates" =>
          /\ \A i \in 1..Len(qcall.ret) :
                qcall.ret[i].retry_count < qcall.ret[i].max_retries
          /\ qcall.ret = SelectSeq(qcall.before.items,
                LAMBDA it : qcall.t >= it.next_retry_time /\ it.retry_count < it.max_retries)

\* C12 witness: get_retry_candidates() ran on a queue holding an expired
\* entry whose scheduled time has passed and a due entry it returned.
C12_Witness ==
    /\ qcall.op = "get_retry_candidates"
    /\ qcall.ret # <<>>
    /\ \E i \in 1..Len(qcall.before.items) :
          /\ qcall.before.items[i].retry_count >= qcall.before.items[i].max_retries
          /\ qcall.before.items[i].next_retry_time <= qcall.t

\* C13: cleanup_old_entries(days) removes exactly the entries that are
\* expired and created more than `days` days ago, keeps every other entry
\* in its order, and returns the number of entries it removed.
C13_CleanupRemovesExpiredAndOld ==
    qcall.op = "cleanup_old_entries" =>
        /\ qcall.after.items = SelectSeq(qcall.before.items,
              LAMBDA it : ~(it.retry_count >= it.max_retries
                            /\ qcall.t - it.created_at > qcall.arg * DaySeconds))
        /\ qcall.ret = Len(qcall.before.items) - Len(qcall.after.items)
        /\ qcall.after.totals = qcall.before.totals

\* C13 witness: a cleanup that removed an expired old entry and kept a
\* non-expired entry of the same age.
C13_Witness ==
    /\ qcall.op = "cleanup_old_entries"
    /\ qcall.ret > 0
    /\ \E i \in 1..Len(qcall.after.items) :
          /\ qcall.after.items[i].retry_count < qcall.after.items[i].max_retries
          /\ qcall.t - qcall.after.items[i].created_at > qcall.arg * DaySeconds

\* C14: remove_item of an absent id returns False and leaves entries,
\* order, counters and last_updated unchanged; remove_item of a present id
\* removes only that entry; a second remove_item(id) changes nothing.
C14_RemoveAbsentIsNoOp ==
    qcall.op = "remove_item" =>
        /\ (qcall.arg \notin IdSet(qcall.before.items)) =>
              (qcall.ret = FALSE /\ qcall.after = qcall.before)
        /\ (qcall.arg \in IdSet(qcall.before.items)) =>
              /\ qcall.ret = TRUE
              /\ qcall.after.items =
                    SelectSeq(qcall.before.items, LAMBDA it : it.id # qcall.arg)
              /\ qcall.after.totals = qcall.before.totals
        /\ remove_item(qcall.after.items, qcall.arg) = <<qcall.after.items, FALSE>>

\* C14 witness: remove_item of an id that is not in a non-empty queue.
C14_Witness ==
    /\ qcall.op = "remove_item"
    /\ qcall.before.items # <<>>
    /\ qcall.arg \notin IdSet(qcall.before.items)

\* C15: RetryQueue.from_dict(q.to_dict()) has the entries of q in the same
\* order, every field equal (retry_count, next_retry_time,
\* provider_failures, created_at and the others), and the same counters
\* and last_updated.
C15_DictRoundTrip ==
    roundtrip.op = "roundtrip" =>
        /\ roundtrip.back.ok
        /\ Len(roundtrip.back.v.items) = Len(roundtrip.queue.items)
        /\ \A i \in 1..Len(roundtrip.queue.items) :
              roundtrip.back.v.items[i] = roundtrip.queue.items[i]
        /\ roundtrip.back.v.totals = roundtrip.queue.totals
        /\ roundtrip.back.v.last_updated = roundtrip.queue.last_updated

\* C15 witness: the round trip of a queue of two entries, one of them with
\* provider failures and a creation time other than its failure time, with
\* counters that are not zero.
C15_Witness ==
    /\ roundtrip.op = "roundtrip"
    /\ Len(roundtrip.queue.items) >= 2
    /\ roundtrip.queue.totals # ZeroTotals
    /\ \E i \in 1..Len(roundtrip.queue.items) :
          /\ roundtrip.queue.items[i].provider_failures # {}
          /\ roundtrip.queue.items[i].created_at # roundtrip.queue.items[i].failure_timestamp

\* C11: when save_queue is about to replace the queue file it holds an
\* exclusive lock on it, and while load_queue of another process reads the
\* file it holds a shared lock and no save_queue is at its replace step.
C11_SaveAndLoadExcludeEachOther ==
    /\ save.pc = "written" => <<"saver", "EX">> \in flock
    /\ reader.pc = "locked" =>
          (<<"reader", "SH">> \in flock /\ save.pc # "written")

\* the places of the input items with this URL, and of those whose title
\* has the normalized form of the title at place g
PlacesOfUrl(articles, u) == {i \in 1..Len(articles) : articles[i].url = u}

PlacesOfTitle(articles, g) ==
    {i \in 1..Len(articles) :
        normalized_title(articles[i].title) = normalized_title(articles[g].title)}

First(places) == CHOOSE i \in places : \A j \in places : i <= j

\* the input places of the returned items (the id of an item is its
\* place in the input)
Kept(ret) == {ret[k].id : k \in 1..Len(ret)}

\* C16 as claimed: for every URL of the input, the output holds exactly
\* one item with that URL, and it is the first input item carrying it.
C16_ExactlyOnePerUrl ==
    dedup.op = "deduplicate" =>
        \A u \in {dedup.articles[i].url : i \in 1..Len(dedup.articles)} :
            Kept(dedup.ret) \cap PlacesOfUrl(dedup.articles, u)
                = {First(PlacesOfUrl(dedup.articles, u))}

\* C16 as amended: for every URL of the input, the output holds at most
\* one item with that URL; when the first input item carrying the URL does
\* not have the normalized title of an earlier kept item, the output holds
\* exactly one, and it is that first item.
C16_AtMostOnePerUrl ==
    dedup.op = "deduplicate" =>
        \A u \in {dedup.articles[i].url : i \in 1..Len(dedup.articles)} :
            LET places == PlacesOfUrl(dedup.articles, u)
                first == First(places)
            IN  /\ Cardinality({k \in 1..Len(dedup.ret) : dedup.ret[k].url = u}) <= 1
                /\ (~\E k \in Kept(dedup.ret) :
                        k < first /\ k \in PlacesOfTitle(dedup.articles, first))
                   => Kept(dedup.ret) \cap places = {first}

\* C16 witness: an input where two items carry one URL and the first of
\* them is kept, and another URL's first item is dropped for its title.
C16_Witness ==
    /\ dedup.op = "deduplicate"
    /\ \E u \in Urls :
          /\ Cardinality(PlacesOfUrl(dedup.articles, u)) >= 2
          /\ First(PlacesOfUrl(dedup.articles, u)) \in Kept(dedup.ret)
    /\ \E u \in Urls :
          /\ PlacesOfUrl(dedup.articles, u) # {}
          /\ First(PlacesOfUrl(dedup.articles, u)) \notin Kept(dedup.ret)

\* C17 as claimed: for every group of input items whose titles are equal
\* after lower-casing and whitespace collapsing, the output holds exactly
\* one item of the group.
C17_ExactlyOnePerTitle ==
    dedup.op = "deduplicate" =>
        \A g \in 1..Len(dedup.articles) :
            Cardinality(Kept(dedup.ret) \cap PlacesOfTitle(dedup.articles, g)) = 1

\* C17 as amended: the output holds at most one item of every such group;
\* when the first item of the group does not carry the URL of an earlier
\* kept item, it holds exactly one, the first item of the group.
C17_AtMostOnePerTitle ==
    dedup.op = "deduplicate" =>
        \A g \in 1..Len(dedup.articles) :
            LET places == PlacesOfTitle(dedup.articles, g)
                first == First(places)
            IN  /\ Cardinality(Kept(dedup.ret) \cap places) <= 1
                /\ (~\E k \in Kept(dedup.ret) :
                        k < first /\ dedup.articles[k].url = dedup.articles[first].url)
                   => Kept(dedup.ret) \cap places = {first}

\* C17 witness: titles that differ in case and spacing only, under
\* different URLs, of which the first is kept; and a group whose only item
\* is dropped for its URL.
C17_Witness ==
    /\ dedup.op = "deduplicate"
    /\ \E g, h \in 1..Len(dedup.articles) :
          /\ g < h
          /\ dedup.articles[g].title # dedup.articles[h].title
          /\ dedup.articles[g].url # dedup.articles[h].url
          /\ h \in PlacesOfTitle(dedup.articles, g)
          /\ g \in Kept(dedup.ret)
    /\ \E g \in 1..Len(dedup.articles) :
          Kept(dedup.ret) \cap PlacesOfTitle(dedup.articles, g) = {}

\* C18: deduplicate returns a subsequence of its input (the kept items in
\* input order); an item is dropped only if an earlier kept item has its
\* URL or its normalized-title fingerprint; no two returned items share a
\* URL or a fingerprint.
C18_DedupIsSubsequence ==
    dedup.op = "deduplicate" =>
        /\ \A k \in 1..Len(dedup.ret) :
              /\ dedup.ret[k].id \in 1..Len(dedup.articles)
              /\ dedup.ret[k] = dedup.articles[dedup.ret[k].id]
        /\ \A k, l \in 1..Len(dedup.ret) :
              k < l =>
                /\ dedup.ret[k].id < dedup.ret[l].id
                /\ dedup.ret[k].url # dedup.ret[l].url
                /\ generate_title_hash(dedup.ret[k].title)
                      # generate_title_hash(dedup.ret[l].title)
        /\ \A i \in 1..Len(dedup.articles) :
              i \notin Kept(dedup.ret) =>
                \E k \in Kept(dedup.ret) :
                    /\ k < i
                    /\ \/ dedup.articles[k].url = dedup.articles[i].url
                       \/ generate_title_hash(dedup.articles[k].title)
                            = generate_title_hash(dedup.articles[i].title)

\* C18 witness: an input of three items of which the middle one is dropped.
C18_Witness ==
    /\ dedup.op = "deduplicate"
    /\ Len(dedup.articles) = 3
    /\ Kept(dedup.ret) = {1, 3}

ItemsOf(list) == {list[i] : i \in 1..Len(list)}

Succeeded == {src \in Sources : tasks[src].pc = "returned"}

SameArticle(a, b) ==
    a.url = b.url \/ normalized_title(a.title) = normalized_title(b.title)

\* what collect_all returned is the deduplicated items of exactly the
\* sources that succeeded
ReturnsItemsOfSucceeded ==
    /\ collect.kind = "returned"
    /\ collect.successful_sources = Succeeded
    /\ ItemsOf(collect.ret) \subseteq UNION {ItemsOf(tasks[src].served) : src \in Succeeded}
    /\ \A src \in Succeeded : \A a \in ItemsOf(tasks[src].served) :
          \E r \in ItemsOf(collect.ret) : SameArticle(r, a)
    /\ \A k, l \in 1..Len(collect.ret) :
          k # l => ~SameArticle(collect.ret[k], collect.ret[l])
    /\ Succeeded = {} => collect.ret = <<>>

\* C19: collect_all does not raise when sources fail: it returns the
\* deduplicated items of exactly the sources that succeeded (the empty
\* list when all fail), and a collect_all that has started its tasks
\* always comes to its return.
C19_FailingSourcesDoNotBlock ==
    /\ [](collect.pc = "done" => ReturnsItemsOfSucceeded)
    /\ (collect.pc = "gathering") ~> (collect.pc = "done")

\* C19 witness: collect_all has returned the items of a source that
\* succeeded while another source failed on every attempt.
C19_Witness ==
    /\ collect.pc = "done"
    /\ \E src \in Sources : tasks[src].pc = "raised" /\ tasks[src].failures >= 1
    /\ collect.kind = "returned"
    /\ collect.ret # <<>>

\* C20: _collect_from_source makes at most max_retries attempts, waits
\* 2^k seconds after the k-th failed attempt (k from 0) but not after the
\* last one, returns the items of the first successful attempt, and has
\* raised RSSCollectionError exactly when max_retries attempts failed.
C20_BoundedRetriesWithBackoff ==
    \A src \in Sources :
        tasks[src].pc # "none" =>
            /\ tasks[src].attempts <= collector.max_retries
            /\ tasks[src].waits = [k \in 1..Len(tasks[src].waits) |-> 2 ^ (k - 1)]
            /\ tasks[src].pc = "fetch" =>
                  (Len(tasks[src].waits) = tasks[src].failures
                   /\ tasks[src].attempts = tasks[src].failures)
            /\ tasks[src].pc = "sleep" =>
                  (Len(tasks[src].waits) = tasks[src].failures
                   /\ tasks[src].failures < collector.max_retries)
            /\ tasks[src].pc = "returned" =>
                  /\ tasks[src].result = tasks[src].served
                  /\ tasks[src].attempts = tasks[src].failures + 1
                  /\ Len(tasks[src].waits) = tasks[src].failures
            /\ tasks[src].pc = "raised" =>
                  /\ tasks[src].attempts = collector.max_retries
                  /\ tasks[src].failures = collector.max_retries
                  /\ Len(tasks[src].waits) =
                        IF collector.max_retries = 0 THEN 0 ELSE collector.max_retries - 1

\* C20 witness: with max_retries 3, one source returned its feed on the
\* third attempt after waits of 1 and 2 seconds, another failed three
\* times and raised.
C20_Witness ==
    /\ collector.max_retries = DefaultCollectorRetries
    /\ \E src \in Sources :
          /\ tasks[src].pc = "returned"
          /\ tasks[src].waits = <<1, 2>>
          /\ tasks[src].result # <<>>
    /\ \E src \in Sources :
          /\ tasks[src].pc = "raised"
          /\ tasks[src].attempts = DefaultCollectorRetries

\* C22: analyze_daily_trends on a non-empty list of processed items does
\* not raise and returns a report that covers the items: total_articles is
\* the number of items and the category counts sum to it, also when the
\* provider call fails and when no provider is available.
C22_TrendReportCoversItems ==
    (call.op = "analyze_daily_trends" /\ call.articles > 0) =>
        /\ call.result.kind = "summary"
        /\ call.result.value.total_articles = call.articles
        /\ call.result.value.category_total = call.articles

\* C23: batch_process does not raise because a provider failed: it returns
\* a list that holds every cache hit and every result of the sub-batches
\* of the providers that did not fail.
C23_BatchSurvivesProviderFailure ==
    call.op = "batch_process" =>
        /\ call.result.kind = "list"
        /\ \A a \in Range(call.articles) :
              cache_hit(cache, a) => cache_get(cache, a) \in Range(call.result.value)
        /\ \A d \in call.dispatched :
              d[1] \in call.succeeded => NewsItem(d[1], d[2]) \in Range(call.result.value)

\* C24: an item of batch_process whose assigned provider fails is tried on
\* the other available providers: it is missing from the result only if
\* every available provider was called for it.
C24_BatchItemFailsOver ==
    (call.op = "batch_process" /\ call.result.kind = "list") =>
        \A d \in call.dispatched :
            (~\E it \in Range(call.result.value) : it.id = d[1]) =>
                \A p \in call.available : <<d[1], p>> \in call.dispatched

\* C21: when every source fails, so that collect_all returns no item,
\* ProcessingPipeline.run returns the exit code 1.
C21_NothingCollectedIsFailure ==
    ( /\ pipeline.pc = "done"
      /\ pipeline.collect_all # NoValue
      /\ pipeline.collect_all.kind = "returned"
      /\ pipeline.collect_all.successful_sources = {} ) =>
        pipeline.exit_code = 1

\* the classification that the last classify_error call returned
Classification == classified.result.v

CategoryOrder ==
    <<"rate_limit", "quota_exceeded", "network_error", "service_error",
      "timeout_error", "auth_error", "invalid_request">>

\* the places in CategoryOrder of the categories of the provider's table
\* that have a pattern found in the lowercased message
MatchingCategories ==
    LET patterns == select_patterns(lower(classified.provider))
        message == lower(classified.error.message)
    IN  {k \in DOMAIN CategoryOrder :
            \E e \in Range(patterns) :
                /\ e[1] = CategoryOrder[k]
                /\ \E pattern \in Range(e[2]) : re_search(pattern, message)}

\* C26: the category of a classification is the earliest category, in the
\* order rate-limit, quota-exceeded, network, service-unavailable,
\* timeout, authentication, invalid-request, that has a pattern of the
\* selected table matching the lowercased message, and unknown when no
\* category has one.
C26_FirstMatchingCategoryWins ==
    (classified.op = "classify_error" /\ classified.result.ok) =>
        IF MatchingCategories = {}
        THEN Classification.error_type = "unknown_error"
        ELSE \E k \in MatchingCategories :
                /\ \A j \in MatchingCategories : k <= j
                /\ Classification.error_type = CategoryOrder[k]

\* C26 witness: classify_error classified a message in which patterns of
\* two or more categories are found
C26_Witness ==
    /\ classified.op = "classify_error"
    /\ classified.result.ok
    /\ Cardinality(MatchingCategories) >= 2

\* C27: classify_error returns a classification also when the extraction
\* of the details fails, with the category that the patterns give and the
\* retryability and the suggested delay of that category.
C27_ExtractionFailureKeepsResult ==
    classified.op = "classify_error" =>
        LET error_type == match_error_patterns(lower(classified.error.message),
                                               lower(classified.provider))
        IN  /\ classified.result.ok
            /\ Classification.error_type = error_type
            /\ Classification.is_retryable = (error_type \in retryable_errors)
            /\ Classification.suggested_delay = suggested_delays[error_type]

\* C28: every NewsItem that exists has 0.0 <= ai_confidence <= 1.0, and
\* when the backend supplies a confidence outside this range the
\* provider's summarize_article fails and yields no item.
C28_ConfidenceInRange ==
    built.op = "summarize_article" =>
        /\ (built.result.ok /\ built.result.v # NoValue) =>
              /\ built.result.v.value.ai_confidence.t = "num"
              /\ 0 <= built.result.v.value.ai_confidence.v
              /\ built.result.v.value.ai_confidence.v <= 100
        /\ ( /\ built.response.kind = "JSON"
             /\ hasattr(built.response.fields, "summary")
             /\ \E c \in {-10, 150} : <<"confidence", JNum(c)>> \in built.response.fields ) =>
              ~built.result.ok

\* C28 witness: the backend answered with a summary and the confidence
\* 1.5, and summarize_article raised
C28_Witness ==
    /\ built.op = "summarize_article"
    /\ built.response.kind = "JSON"
    /\ hasattr(built.response.fields, "summary")
    /\ <<"confidence", JNum(150)>> \in built.response.fields
    /\ ~built.result.ok

\* C29: two RawNewsItem objects built for the same URL and title have the
\* same id, and so have the retry-queue entries built from them.
C29_SameDocumentSameId ==
    \A i, j \in DOMAIN objects :
        (objects[i].url = objects[j].url /\ objects[i].title = objects[j].title) =>
            /\ objects[i].id = objects[j].id
            /\ from_raw_news_item(objects[i].id, "failed", now, now).id
                  = from_raw_news_item(objects[j].id, "failed", now, now).id

\* the results of the sources of S that returned, in the order in which
\* their tasks completed
RECURSIVE ByCompletion(_)
ByCompletion(S) ==
    IF S = {} THEN <<>>
    ELSE LET first == CHOOSE src \in S : \A other \in S : tasks[src].order <= tasks[other].order
         IN  tasks[first].result \o ByCompletion(S \ {first})

\* C30: the list returned by collect_all holds the items of the sources in
\* the order in which their fetches completed: it is the deduplication of
\* the results joined in completion order.
C30_CompletionOrder ==
    (collect.pc = "done" /\ collect.kind = "returned") =>
        collect.ret = deduplicate(ByCompletion(Succeeded))

\* the providers that are available and not in rate-limit cooldown at time
\* at, read from the health records alone
Candidates(status, at) ==
    {p \in Providers :
        /\ status[p].available
        /\ ~(status[p].rate_limit_reset # NoReset /\ at < status[p].rate_limit_reset)}

\* the first provider of the preference ordering of a task among S
FirstPreferred(task_type, S) ==
    Head(SelectSeq(task_preferences(task_type), LAMBDA p : p \in S))

\* a step that is one summarize_article call: call' is its record, the
\* unprimed variables are the state it started in
SummarizeStep ==
    /\ call'.op = "summarize_article"
    /\ UNCHANGED <<now, others_m>>

\* C32: _select_provider returns the first provider of the preference
\* ordering of "summarize" among the providers that are available and not
\* in cooldown, and None exactly when there is none; summarize_article then
\* returns None, calls no provider and leaves the health records alone.
C32_SelectsFirstPreferredCandidate ==
    [][ (SummarizeStep /\ ~cache_hit(cache, call'.article)) =>
            LET cand == Candidates(provider_status, now) IN
            IF cand = {}
            THEN /\ call'.result = ReturnedNone
                 /\ call'.calls = <<>>
                 /\ provider_status' = provider_status
            ELSE /\ call'.result # RaisedTypeError
                 /\ call'.calls # <<>>
                 /\ call'.calls[1].provider = FirstPreferred("summarize", cand) ]_vars

\* C33: one summarize_article call invokes each provider at most once, the
\* selected provider first, and never one whose available flag is false;
\* it stops at the first provider that returns a result and returns None
\* after every available provider has failed, so it makes at most as many
\* provider calls as there are providers.
C33_EachProviderTriedOnce ==
    [][ SummarizeStep =>
            LET calls == call'.calls
                n == Len(calls)
            IN  /\ n <= Cardinality(Providers)
                /\ \A i, j \in 1..n : calls[i].provider = calls[j].provider => i = j
                /\ \A i \in 1..n : provider_status[calls[i].provider].available
                /\ n > 0 => calls[1].provider = select_provider(provider_status, "summarize", now)
                /\ \A i \in 1..n : calls[i].outcome = "ok" =>
                      /\ i = n
                      /\ call'.result = Returned("item", NewsItem(call'.article, calls[i].provider))
                /\ (n > 0 /\ \A i \in 1..n : calls[i].outcome # "ok") =>
                      /\ call'.result = ReturnedNone
                      /\ {calls[i].provider : i \in 1..n}
                            = {p \in Providers : provider_status[p].available} ]_vars

\* C33 witness: the selected provider raised, the next one returned a
\* result and the call returned it
C33_Witness ==
    /\ call.op = "summarize_article"
    /\ Len(call.calls) = 2
    /\ call.calls[1].outcome = "raise"
    /\ call.calls[2].outcome = "ok"
    /\ call.result.kind = "item"

\* a step that is one batch_process call
BatchProcessStep ==
    /\ call'.op = "batch_process"
    /\ UNCHANGED <<now, others_m>>

\* the cached items of the articles of a list, in the order of the list
CacheHits(stored, articles) ==
    LET hits == SelectSeq(articles, LAMBDA a : cache_hit(stored, a))
    IN  [i \in 1..Len(hits) |-> cache_get(stored, hits[i])]

\* C34: batch_process assigns every article that is not a cache hit to
\* exactly one provider, and only to providers that are available and not
\* in cooldown; when no provider qualifies nothing is dispatched and the
\* cache hits alone are returned.
C34_EveryNewItemAssignedOnce ==
    [][ BatchProcessStep =>
            LET new == {a \in Range(call'.articles) : ~cache_hit(cache, a)}
                cand == Candidates(provider_status, now)
                sent == call'.dispatched
            IN  /\ \A pair \in sent : pair[1] \in new /\ pair[2] \in cand
                /\ {call'.calls[i].provider : i \in 1..Len(call'.calls)}
                      = {pair[2] : pair \in sent}
                /\ IF cand = {}
                   THEN /\ sent = {}
                        /\ call'.result = Returned("list", CacheHits(cache, call'.articles))
                   ELSE /\ call'.result.kind = "list"
                        /\ \A a \in new :
                              Cardinality({pair \in sent : pair[1] = a}) = 1 ]_vars

\* the place of an article in a list of articles
PlaceIn(articles, a) == CHOOSE i \in 1..Len(articles) : articles[i] = a

MultiStep ==
    /\ call'.op \in {"summarize_article", "batch_process", "analyze_daily_trends"}
    /\ UNCHANGED <<now, others_m>>

\* the providers an operation called
Called(record) == {record.calls[i].provider : i \in 1..Len(record.calls)}

\* a provider whose available flag is false is not called and its flag
\* stays false
UnavailableStaysOut ==
    \A p \in Providers :
        ~provider_status[p].available =>
            /\ ~provider_status'[p].available
            /\ MultiStep => p \notin Called(call')

AllUnavailable == \A p \in Providers : ~provider_status[p].available

\* C38 as stated: a provider whose available flag is false is never called
\* and never made available again, and once every provider is unavailable
\* every summarize_article call returns None.
C38_UnavailableForGood ==
    [][ /\ UnavailableStaysOut
        /\ (SummarizeStep /\ AllUnavailable) => call'.result = ReturnedNone ]_vars

\* C38 amended: the same, with None for every article that is not cached
\* and the cached item for an article that is.
C38_UnavailableForGoodButCache ==
    [][ /\ UnavailableStaysOut
        /\ (SummarizeStep /\ AllUnavailable) =>
              /\ call'.calls = <<>>
              /\ call'.result = IF cache_hit(cache, call'.article)
                                THEN Returned("item", cache_get(cache, call'.article))
                                ELSE ReturnedNone ]_vars

\* C38 witness: with every provider unavailable, summarize_article of an
\* article that is not cached called no provider and returned None
C38_Witness ==
    /\ AllUnavailable
    /\ call.op = "summarize_article"
    /\ ~cache_hit(cache, call.article)
    /\ call.calls = <<>>
    /\ call.result = ReturnedNone

\* C37: every item a provider produces has a summary of at most 200
\* characters, on the fallback path too, and a backend summary of more
\* than 200 characters is cut to 197 characters followed by "...".
C37_SummaryAtMost200 ==
    (built.op = "summarize_article" /\ built.result.ok /\ built.result.v # NoValue) =>
        LET summary == built.result.v.value.summary IN
        /\ TextLen(summary) <= 200
        /\ ( /\ built.response.kind = "JSON"
             /\ TextLen(getattr(built.response.fields, "summary")) > 200 ) =>
                summary = Text(197, TRUE)

\* a step in which load_queue read the queue file
LoadQueueStep ==
    /\ "read" \in DOMAIN loaded'
    /\ loaded'.read = file
    /\ (loaded' # loaded \/ backups' # backups)
    /\ UNCHANGED now

\* C31: when load_queue finds malformed persisted state it moves the file
\* aside: afterwards a backup file holds the malformed content and the
\* queue path no longer holds it, so the next load_queue does not meet it.
C31_MalformedFileMovedAside ==
    [][ (LoadQueueStep /\ file \in MalformedContents) =>
            /\ \E b \in backups' : b[2] = file
            /\ file' # file
            /\ load_queue(file', now) # load_queue(file, now) ]_vars

\* C39: a load_queue that runs while another process is in save_queue
\* returns a saved queue in full: what it opens is the complete file of the
\* last save that replaced the queue file (the earlier queue until the
\* replace, the new one from then on), and what it returns is that queue.
C39_ConcurrentLoadSeesWholeQueue ==
    [][ /\ ("content" \in DOMAIN reader') => reader'.content.t = "json"
        /\ (reader.pc = "idle" /\ reader'.pc = "opened") =>
              /\ committed.t = "queue"
              /\ load_queue(reader'.content, now) = Loaded(committed.queue, FALSE)
        /\ reader'.pc = "read" =>
              /\ reader'.ret = load_queue(reader'.content, now)
              /\ reader'.ret.result = "queue"
              /\ ~reader'.ret.backup ]_vars

\* C39 witness: the second process has read the queue of the last save in
\* full while a save_queue of a changed queue has written its temporary
\* file and not yet replaced the queue file
C39_Witness ==
    /\ reader.pc = "read"
    /\ save.pc = "written"
    /\ committed.t = "queue"
    /\ reader.ret = Loaded(committed.queue, FALSE)
    /\ save.queue # committed.queue

FileIds == IdSet(load_queue(file, now).queue.items)

\* C40: when two processes each load the queue, change it and save it, in
\* any interleaving, the file left after both saves holds the changes of
\* both: an entry one of them added is there unless the other removed it,
\* and an entry one of them removed is gone unless the other added it.
C40_NoLostUpdate ==
    (\A p \in Procs : procs[p].pc = "saved") =>
        \A p, o \in Procs :
            p # o =>
                /\ \A id \in procs[p].added : id \notin procs[o].removed => id \in FileIds
                /\ \A id \in procs[p].removed : id \notin procs[o].added => id \notin FileIds

====
